---- MODULE Spec2Model ----
(***************************************************************************)
(* Verification model of the DSP core of STM32F411_AudioCrossover:         *)
(*   - the crossover filter bank         (crossover.c,  src/unnamed/part_006)*)
(*   - the delay / phase line            (delay.c, src/App/Src/preset_manager.c)*)
(*   - the block pipeline                (src/App/Src/audio_processing.c)  *)
(* Floating point values are modelled in fixed point: a float v is the     *)
(* integer v * FP.  sinf/cosf are modelled by their Taylor polynomials,    *)
(* which are exact to the fixed-point resolution for the cutoff            *)
(* frequencies used here (omega < 1.2 rad).                                *)
(***************************************************************************)
EXTENDS Integers, Sequences, FiniteSets, TLC

VARIABLES
    crossoverFilters,   \* CrossoverFilters_t: settings in effect + filterCount per chain
    filters,            \* the six static BiquadFilter_t arrays, [chain][stage]
    currentSettings,    \* CrossoverSettings_t kept for the getter
    xoverOut,           \* band samples produced by the last Crossover_Process call
    xoverSteps,         \* crossover operations performed so far (model bound)
    xoverOp,            \* the crossover operation that produced this state
    xoverDirty          \* some state register was nonzero when the last setter started

VARIABLES
    delayInstance,      \* Delay_t: buffer, writeIndex, readIndex, phaseInvert, delaySamples, needsUpdate
    delayOut,           \* output block written by the last Delay_Process call
    delayTrace,         \* write/read indices at each sample boundary of that call
    delayOp,            \* the delay operation that produced this state
    delayPending,       \* channels whose delay was set since read indices were last recomputed
    delayChanged,       \* channels whose delay has been set since Delay_Init
    delaySteps,         \* delay operations performed so far (model bound)
    impulse             \* impulse measurement in progress: phase, band and delay under test

dvars == <<delayInstance, delayOut, delayTrace, delayOp, delayPending, delayChanged,
           delaySteps, impulse>>

VARIABLES
    systemSettings,     \* SystemSettings_t handed to AudioProcessing_Process
    bypassEnabled,      \* bypass flag of the pipeline
    inputBuffer,        \* interleaved int16 block last handed in
    outputBuffer,       \* interleaved int16 block last produced
    bandBufferL,        \* per band left buffer as left by the last block
    bandBufferR,        \* per band right buffer as left by the last block
    bandSplit,          \* band buffers as the crossover delivered them for that block
    bandDelayMem,       \* per band frame held in the pipeline's delay line
    audioStats,         \* AudioProcessingStats_t
    callLog,            \* calls made by the last AudioProcessing_Process, in order
    pipeOp,             \* the pipeline operation that produced this state
    pipeSteps           \* pipeline operations performed so far (model bound)

pvars == <<systemSettings, bypassEnabled, inputBuffer, outputBuffer, bandBufferL,
           bandBufferR, bandSplit, bandDelayMem, audioStats, callLog, pipeOp, pipeSteps>>

xvars == <<crossoverFilters, filters, currentSettings, xoverOut, xoverSteps, xoverOp, xoverDirty>>

VARIABLES
    loopPc,             \* position of the main loop: poll, fetch, process, send, ui, state
    shared,             \* what interrupt handlers and main loop share: systemTick,
                        \* needsRefresh, queued input events, the driver's flags and
                        \* block count, and the count of setter calls on the DSP modules
    observed,           \* number of the block whose ready flag the last poll saw, 0 if none
    inBlock,            \* number of the block held in inputBuffer
    procEntries,        \* entries of that block processed so far
    outBlock,           \* block held in outputBuffer: number and entries written
    handedOff           \* blocks handed to the output driver, in order

lvars == <<loopPc, shared, observed, inBlock, procEntries, outBlock, handedOff>>

VARIABLES
    compressor,         \* Compressor_t: params, state, attackCoef, releaseCoef, sampleRate
    limiter,            \* Limiter_t: params, state, releaseCoef, sampleRate
    dynInput,           \* the input buffer as the caller filled it for the last call
    dynBufIn,           \* the input buffer after the call
    dynBufOut,          \* the separate output buffer
    dynInPlace,         \* the last call was made with output == input
    dynQuiet,           \* per instance: every sample it processed since its state was
                        \* reset was at the quiet level
    dynOp,              \* the dynamics operation that produced this state
    dynSteps            \* dynamics operations performed so far (model bound)

yvars == <<compressor, limiter, dynInput, dynBufIn, dynBufOut, dynInPlace, dynQuiet,
           dynOp, dynSteps>>

VARIABLES
    buttons,            \* ButtonConfig_t of every sampled button
    buttonTick,         \* buttonTick
    buttonQueue,        \* ButtonEventQueue_t: events, head, tail, count
    btnReady,           \* ButtonHandler_Init has run
    btnPc,              \* position of the main loop inside GetEvent / ClearEvents
    btnLocal,           \* what that call holds in registers: index, event, count
    btnLog,             \* every event pushed so far, in order, with the tick of the push
    btnDelivered,       \* every event handed to a caller of GetEvent, in order
    btnRun,             \* per button: consecutive samples that differed from the stable state
    btnPressedFor       \* per button: samples since the stable state became pressed

bvars == <<buttons, buttonTick, buttonQueue, btnReady, btnPc, btnLocal, btnLog,
           btnDelivered, btnRun, btnPressedFor>>

VARIABLES
    rotary,             \* the encoder's statics: lastClk .. currentMode, accumulator, counter
    rotaryQueue,        \* eventQueue with queueHead, queueTail, queueCount
    rotReady,           \* RotaryEncoder_Init has run
    rotPc,              \* position of the main loop inside RotaryEncoder_GetEvent
    rotLocal,           \* what that call holds: index, event copied so far
    rotPushed,          \* events enqueued so far
    rotReturned,        \* the event the last successful GetEvent returned
    rotSamples          \* samples taken so far (model bound)

rvars == <<rotary, rotaryQueue, rotReady, rotPc, rotLocal, rotPushed, rotReturned,
           rotSamples>>

VARIABLES
    ui,                 \* the UI manager's statics: uiState .. buttonHoldCounter
    uiOp,               \* the UI operation that produced this state
    uiLastEvent,        \* tick of the last rotary or button event, or of entering edit mode
    uiIdle,             \* at the last UI_Update: ticks since uiLastEvent if it found the
                        \* UI in edit mode, else 0
    uiCalled            \* the edit callback was invoked during the last operation

uvars == <<ui, uiOp, uiLastEvent, uiIdle, uiCalled>>

VARIABLES
    menu,               \* the menu system's statics: menuDepth, menuState, menuStack,
                        \* currentParameter .., and the module parameters it edits
    menuOp,             \* the menu operation that produced this state, and its argument
    menuEvents          \* button and encoder events handled so far

mvars == <<menu, menuOp, menuEvents>>

VARIABLES
    presets,            \* the preset manager's statics (presetMetadata, currentPresetId),
                        \* the flash behind them, the caller's settings record and
                        \* the status last returned
    presetOp,           \* the preset manager call that produced this state
    presetCalls         \* calls made so far

svars == <<presets, presetOp, presetCalls>>

vars == <<xvars, dvars, pvars, lvars, yvars, bvars, rvars, uvars, mvars, svars>>
NotXover == <<dvars, pvars, lvars, yvars, bvars, rvars, uvars, mvars, svars>>
NotDelay == <<xvars, pvars, lvars, yvars, bvars, rvars, uvars, mvars, svars>>
NotPipe == <<xvars, dvars, lvars, yvars, bvars, rvars, uvars, mvars, svars>>
NotLoop == <<xvars, dvars, pvars, yvars, bvars, rvars, uvars, mvars, svars>>
NotDynamics == <<xvars, dvars, pvars, lvars, bvars, rvars, uvars, mvars, svars>>
NotButton == <<xvars, dvars, pvars, lvars, yvars, rvars, uvars, mvars, svars>>
NotRotary == <<xvars, dvars, pvars, lvars, yvars, bvars, uvars, mvars, svars>>
Dsp == <<xvars, dvars, pvars, lvars, yvars>>
NotMenu == <<Dsp, bvars, rvars, uvars, svars>>
NotPreset == <<Dsp, bvars, rvars, uvars, mvars>>

----------------------------------------------------------------------------
(* Fixed point arithmetic                                                  *)

FP == 10000                      \* 1.0f
PI_FP == 31416                   \* PI
Q_LR == 7071                     \* 0.7071f, CalculateLinkwitzRileyCoefficients

Abs(x) == IF x < 0 THEN -x ELSE x
\* C division and float->int conversion truncate toward zero
TruncDiv(a, b) == IF (a < 0) # (b < 0) THEN -(Abs(a) \div Abs(b)) ELSE Abs(a) \div Abs(b)
Mul(a, b) == TruncDiv(a * b, FP)
Div(a, b) == TruncDiv(a * FP, b)

\* sinf / cosf on a fixed point argument
Sinf(x) ==
    LET x2 == Mul(x, x)
        x3 == Mul(x2, x)
        x5 == Mul(x3, x2)
        x7 == Mul(x5, x2)
    IN  x - TruncDiv(x3, 6) + TruncDiv(x5, 120) - TruncDiv(x7, 5040)

Cosf(x) ==
    LET x2 == Mul(x, x)
        x4 == Mul(x2, x2)
        x6 == Mul(x4, x2)
    IN  FP - TruncDiv(x2, 2) + TruncDiv(x4, 24) - TruncDiv(x6, 720)

----------------------------------------------------------------------------
(* Crossover: constants and types                                          *)

MAX_FILTER_ORDER == 8
DEFAULT_SAMPLE_RATE == 48000
DEFAULT_LOW_CUTOFF == 100
DEFAULT_MID_CUTOFF == 1000
DEFAULT_HIGH_CUTOFF == 5000
DEFAULT_FILTER_TYPE == 1
DEFAULT_FILTER_ORDER == 4

MaxStages == MAX_FILTER_ORDER \div 2
Stages == 0 .. (MaxStages - 1)

Chains == {"subLowPass", "lowLowPass", "lowHighPass",
           "midLowPass", "midHighPass", "highHighPass"}
Bands == {"sub", "low", "mid", "high"}

\* type argument passed for each chain: 0 = LP, 1 = HP
ChainType(c) == IF c \in {"subLowPass", "lowLowPass", "midLowPass"} THEN 0 ELSE 1

\* cutoff each chain is designed at
ChainCutoff(cf, c) ==
    CASE c \in {"subLowPass", "lowHighPass"} -> cf.lowCutoff
      [] c \in {"lowLowPass", "midHighPass"} -> cf.midCutoff
      [] OTHER                               -> cf.highCutoff

\* a zero-initialised static BiquadFilter_t
ZeroFilter == [b0 |-> 0, b1 |-> 0, b2 |-> 0, a1 |-> 0, a2 |-> 0, x1 |-> 0, x2 |-> 0]

\* DB_TO_LINEAR / LINEAR_TO_DB on the gains used in the model
DB_TO_LINEAR(db) ==
    CASE db = -20 -> FP \div 10
      [] db = 0   -> FP
      [] db = 20  -> FP * 10

LINEAR_TO_DB(lin) ==
    CASE lin = FP \div 10 -> -20
      [] lin = FP         -> 0
      [] lin = FP * 10    -> 20

----------------------------------------------------------------------------
(* Crossover: coefficient design                                           *)

\* the five normalised coefficients written by CalculateButterworthCoefficients
ButterworthCoefficients(frequency, q, type, sampleRate) ==
    LET omega == TruncDiv(2 * PI_FP * frequency, sampleRate)
        alpha == TruncDiv(Sinf(omega) * FP, 2 * q)
        cosw  == Cosf(omega)
        b0 == IF type = 0 THEN TruncDiv(FP - cosw, 2) ELSE TruncDiv(FP + cosw, 2)
        b1 == IF type = 0 THEN FP - cosw ELSE -(FP + cosw)
        b2 == b0
        a0 == FP + alpha
        a1 == -2 * cosw
        a2 == FP - alpha
    IN  [b0 |-> Div(b0, a0), b1 |-> Div(b1, a0), b2 |-> Div(b2, a0),
         a1 |-> Div(a1, a0), a2 |-> Div(a2, a0)]

\* CalculateButterworthCoefficients(filter, ...): coefficients replaced, state kept
CalculateButterworthCoefficients(filter, frequency, q, type, sampleRate) ==
    LET k == ButterworthCoefficients(frequency, q, type, sampleRate)
    IN  [filter EXCEPT !.b0 = k.b0, !.b1 = k.b1, !.b2 = k.b2, !.a1 = k.a1, !.a2 = k.a2]

CalculateLinkwitzRileyCoefficients(filter, frequency, type, sampleRate) ==
    CalculateButterworthCoefficients(filter, frequency, Q_LR, type, sampleRate)

\* qValues2 / qValues4 / qValues8 and the switch that selects among them
QValues(order) ==
    CASE order = 2 -> <<7071>>
      [] order = 4 -> <<5412, 13066>>
      [] order = 8 -> <<5098, 6013, 9000, 17412>>
      [] OTHER     -> <<5412, 13066>>

ResetFilter(filter) == [filter EXCEPT !.x1 = 0, !.x2 = 0]

\* a reset that clears only the first section of every chain
ResetAllFilters_FirstOnly(fl) ==
    [c \in Chains |-> [i \in Stages |-> IF i = 0 THEN ResetFilter(fl[c][i]) ELSE fl[c][i]]]

ResetAllFilters(fl) == [c \in Chains |-> [i \in Stages |-> ResetFilter(fl[c][i])]]

\* number of stages the design loop of CalculateFilterCoefficients visits
NumFilters(cf) ==
    IF cf.filterType = 0 THEN cf.filterOrder \div 2 ELSE cf.filterOrder \div 4

CalculateFilterCoefficients(cf, fl) ==
    LET r == ResetAllFilters(fl)
    IN  [c \in Chains |-> [i \in Stages |->
            IF i < NumFilters(cf)
            THEN IF cf.filterType = 0
                 THEN CalculateButterworthCoefficients(r[c][i], ChainCutoff(cf, c),
                          QValues(cf.filterOrder)[i + 1], ChainType(c), cf.sampleRate)
                 ELSE CalculateLinkwitzRileyCoefficients(r[c][i], ChainCutoff(cf, c),
                          ChainType(c), cf.sampleRate)
            ELSE r[c][i]]]

----------------------------------------------------------------------------
(* Crossover: sample processing                                            *)

\* ProcessBiquad: Direct Form II; returns the updated filter and the result
ProcessBiquad(filter, input) ==
    LET output == input - Mul(filter.a1, filter.x1) - Mul(filter.a2, filter.x2)
        result == Mul(filter.b0, output) + Mul(filter.b1, filter.x1)
                  + Mul(filter.b2, filter.x2)
    IN  [filter |-> [filter EXCEPT !.x2 = filter.x1, !.x1 = output], result |-> result]

\* ProcessFilterChain from stage i on: returns the updated array and the output
RECURSIVE ProcessFilterChainFrom(_, _, _, _)
ProcessFilterChainFrom(chain, count, i, input) ==
    IF i >= count
    THEN [chain |-> chain, output |-> input]
    ELSE LET p == ProcessBiquad(chain[i], input)
         IN  ProcessFilterChainFrom([chain EXCEPT ![i] = p.filter], count, i + 1, p.result)

ProcessFilterChain(chain, count, input) == ProcessFilterChainFrom(chain, count, 0, input)

\* one iteration of the sample loop of Crossover_Process
CrossoverSample(cf, fl, inputSample) ==
    LET sub  == ProcessFilterChain(fl["subLowPass"], cf.filterCount["subLowPass"], inputSample)
        lowH == ProcessFilterChain(fl["lowHighPass"], cf.filterCount["lowHighPass"], inputSample)
        lowL == ProcessFilterChain(fl["lowLowPass"], cf.filterCount["lowLowPass"], lowH.output)
        midH == ProcessFilterChain(fl["midHighPass"], cf.filterCount["midHighPass"], inputSample)
        midL == ProcessFilterChain(fl["midLowPass"], cf.filterCount["midLowPass"], midH.output)
        high == ProcessFilterChain(fl["highHighPass"], cf.filterCount["highHighPass"], inputSample)
        raw  == [sub |-> sub.output, low |-> lowL.output, mid |-> midL.output, high |-> high.output]
    IN  [filters |-> [subLowPass |-> sub.chain, lowLowPass |-> lowL.chain,
                      lowHighPass |-> lowH.chain, midLowPass |-> midL.chain,
                      midHighPass |-> midH.chain, highHighPass |-> high.chain],
         out |-> [b \in Bands |-> IF cf.mute[b] # 0 THEN 0 ELSE Mul(raw[b], cf.gain[b])]]

\* the sample loop of Crossover_Process over a block
RECURSIVE CrossoverBlock(_, _, _, _)
CrossoverBlock(cf, fl, input, acc) ==
    IF input = <<>>
    THEN [filters |-> fl, out |-> acc]
    ELSE LET s == CrossoverSample(cf, fl, Head(input))
         IN  CrossoverBlock(cf, s.filters, Tail(input), Append(acc, s.out))

----------------------------------------------------------------------------
(* Crossover: operations                                                   *)

\* model bounds
MaxXoverSteps == 3               \* crossover operations in one run
MaxXoverBlock == 1               \* samples per Crossover_Process call

XoverSamples == {0, 1000}
XoverBlocks == UNION {[1 .. n -> XoverSamples] : n \in 1 .. MaxXoverBlock}

SampleRates == {44100, 48000}
\* the last one asks for a low crossover point of 10 Hz
CutoffChoices == {<<100, 1000, 5000>>, <<80, 1000, 8000>>, <<10, 1000, 5000>>}
\* 2, 4, 8 are the supported orders; 0 is what a zero-initialised
\* CrossoverSettings_t carries
OrderChoices == {0, 2, 4, 8}
UnityGain == [b \in Bands |-> 0]
NoMute == [b \in Bands |-> 0]

\* the CrossoverSettings_t records handed to Crossover_SetSettings
XoverSettingsSet ==
    {[lowCutoff |-> f[1], midCutoff |-> f[2], highCutoff |-> f[3], gain |-> UnityGain,
      filterType |-> t, filterOrder |-> o, mute |-> NoMute] :
        f \in CutoffChoices, t \in {0, 1}, o \in OrderChoices}
    \cup
    {[lowCutoff |-> 100, midCutoff |-> 1000, highCutoff |-> 5000,
      gain |-> [b \in Bands |-> IF b = "sub" THEN 20 ELSE -20],
      filterType |-> t, filterOrder |-> 4,
      mute |-> [b \in Bands |-> IF b = "mid" THEN 1 ELSE 0]] : t \in {0, 1}}

AnyDirty(fl) == \E c \in Chains, i \in Stages : fl[c][i].x1 # 0 \/ fl[c][i].x2 # 0

\* Crossover_Init, starting from zero-initialised statics
XoverInit ==
    LET count == DEFAULT_FILTER_ORDER \div 2
        cf == [lowCutoff |-> DEFAULT_LOW_CUTOFF, midCutoff |-> DEFAULT_MID_CUTOFF,
               highCutoff |-> DEFAULT_HIGH_CUTOFF,
               filterType |-> DEFAULT_FILTER_TYPE, filterOrder |-> DEFAULT_FILTER_ORDER,
               sampleRate |-> DEFAULT_SAMPLE_RATE,
               gain |-> [b \in Bands |-> FP], mute |-> [b \in Bands |-> 0],
               filterCount |-> [c \in Chains |-> count]]
        zero == [c \in Chains |-> [i \in Stages |-> ZeroFilter]]
    IN  /\ crossoverFilters = cf
        /\ filters = CalculateFilterCoefficients(cf, ResetAllFilters(zero))
        /\ currentSettings = [lowCutoff |-> cf.lowCutoff, midCutoff |-> cf.midCutoff,
                              highCutoff |-> cf.highCutoff,
                              gain |-> [b \in Bands |-> LINEAR_TO_DB(cf.gain[b])],
                              filterType |-> cf.filterType, filterOrder |-> cf.filterOrder,
                              mute |-> cf.mute]
        /\ xoverOut = <<>>
        /\ xoverSteps = 0
        /\ xoverOp = "Crossover_Init"
        /\ xoverDirty = FALSE

\* the CrossoverFilters_t fields written by Crossover_SetSettings
ApplySettings(cf, settings) ==
    LET filterCount == settings.filterOrder \div 2
    IN  [cf EXCEPT !.lowCutoff = settings.lowCutoff, !.midCutoff = settings.midCutoff,
                   !.highCutoff = settings.highCutoff,
                   !.gain = [b \in Bands |-> DB_TO_LINEAR(settings.gain[b])],
                   !.filterType = settings.filterType,
                   !.filterOrder = settings.filterOrder,
                   !.mute = settings.mute,
                   !.filterCount = [c \in Chains |-> filterCount]]

Crossover_SetSettings(settings) ==
    LET cf == ApplySettings(crossoverFilters, settings)
    IN  /\ xoverSteps < MaxXoverSteps
        /\ currentSettings' = settings
        /\ crossoverFilters' = cf
        /\ filters' = CalculateFilterCoefficients(cf, filters)
        /\ xoverSteps' = xoverSteps + 1
        /\ xoverOp' = "Crossover_SetSettings"
        /\ xoverDirty' = AnyDirty(filters)
        /\ UNCHANGED xoverOut
        /\ UNCHANGED NotXover

Crossover_SetSampleRate(sampleRate) ==
    LET cf == [crossoverFilters EXCEPT !.sampleRate = sampleRate]
    IN  /\ xoverSteps < MaxXoverSteps
        /\ crossoverFilters' = cf
        /\ filters' = CalculateFilterCoefficients(cf, filters)
        /\ xoverSteps' = xoverSteps + 1
        /\ xoverOp' = "Crossover_SetSampleRate"
        /\ xoverDirty' = AnyDirty(filters)
        /\ UNCHANGED <<currentSettings, xoverOut>>
        /\ UNCHANGED NotXover

Crossover_Process(input) ==
    /\ xoverSteps < MaxXoverSteps
    /\ LET r == CrossoverBlock(crossoverFilters, filters, input, <<>>)
       IN  /\ filters' = r.filters
           /\ xoverOut' = r.out
    /\ xoverSteps' = xoverSteps + 1
    /\ xoverOp' = "Crossover_Process"
    /\ UNCHANGED <<crossoverFilters, currentSettings, xoverDirty>>
    /\ UNCHANGED NotXover

XoverNext ==
    \/ \E settings \in XoverSettingsSet : Crossover_SetSettings(settings)
    \/ \E sampleRate \in SampleRates : Crossover_SetSampleRate(sampleRate)
    \/ \E input \in XoverBlocks : Crossover_Process(input)

----------------------------------------------------------------------------
(* Crossover: properties                                                   *)

Coefs(filter) == [b0 |-> filter.b0, b1 |-> filter.b1, b2 |-> filter.b2,
                  a1 |-> filter.a1, a2 |-> filter.a2]
ZeroCoefs == Coefs(ZeroFilter)

\* the coefficients the settings in effect call for in stage i of chain c
DesignFor(cf, c, i) ==
    IF cf.filterType = 0
    THEN ButterworthCoefficients(ChainCutoff(cf, c), QValues(cf.filterOrder)[i + 1],
                                 ChainType(c), cf.sampleRate)
    ELSE ButterworthCoefficients(ChainCutoff(cf, c), Q_LR, ChainType(c), cf.sampleRate)

ActiveStages(c) == {i \in Stages : i < crossoverFilters.filterCount[c]}

\* chain c runs one stage on the design of the settings in effect and another
\* stage on coefficients left behind by an earlier settings call
MixedChain(c) ==
    \E i, j \in ActiveStages(c) :
        /\ Coefs(filters[c][i]) = DesignFor(crossoverFilters, c, i)
        /\ Coefs(filters[c][j]) # DesignFor(crossoverFilters, c, j)
        /\ Coefs(filters[c][j]) # ZeroCoefs

\* C1: a coefficient recomputation rebuilds all six chains as one step, so no
\* sample is filtered while some active stages hold the coefficients of the new
\* settings and others those of old settings.
C1_NoMixedCoefficients ==
    xoverOp = "Crossover_Process" => \A c \in Chains : ~MixedChain(c)

\* C2: with the Linkwitz-Riley type and a supported order, every one of the
\* order/2 stages of every chain is designed with Q = 0.7071.
C2_LinkwitzRileyStagesQ ==
    (crossoverFilters.filterType = 1 /\ crossoverFilters.filterOrder \in {2, 4, 8}) =>
        \A c \in Chains : \A i \in 0 .. (crossoverFilters.filterOrder \div 2 - 1) :
            Coefs(filters[c][i]) =
                ButterworthCoefficients(ChainCutoff(crossoverFilters, c), Q_LR,
                                        ChainType(c), crossoverFilters.sampleRate)

\* C3: when a settings or sample rate change completes, the state registers of
\* every section of all six chains are zero.
C3_StateZeroAfterChange ==
    xoverOp \in {"Crossover_SetSettings", "Crossover_SetSampleRate"} =>
        \A c \in Chains, i \in Stages : filters[c][i].x1 = 0 /\ filters[c][i].x2 = 0

\* a cutoff change completed on filters whose registers held history
C3_Witness ==
    /\ xoverOp = "Crossover_SetSettings"
    /\ xoverDirty
    /\ crossoverFilters.lowCutoff # DEFAULT_LOW_CUTOFF

\* C4: after initialisation and after any settings change every chain holds
\* exactly order/2 sections, and that count is between 1 and 4.
C4_SectionCount ==
    \A c \in Chains :
        /\ crossoverFilters.filterCount[c] = crossoverFilters.filterOrder \div 2
        /\ crossoverFilters.filterCount[c] \in 1 .. MaxStages

\* C16: after a crossover settings call each of the three cutoff frequencies
\* in effect lies between 20 Hz and half the sample rate.
C16_CutoffsInRange ==
    xoverOp = "Crossover_SetSettings" =>
        \A f \in {crossoverFilters.lowCutoff, crossoverFilters.midCutoff,
                  crossoverFilters.highCutoff} :
            f >= 20 /\ 2 * f <= crossoverFilters.sampleRate

----------------------------------------------------------------------------
(* Delay / phase line: constants and types                                 *)
(* Times and delays are fractions with denominator FRAC: a delay time of   *)
(* m/FRAC ms is the integer m, a delay of q/FRAC samples the integer q.    *)
(* The buffer is scaled down with the sample rate and the maximum delay,   *)
(* keeping DELAY_BUFFER_SIZE = samples per ms * MAX_DELAY_MS as in delay.h *)
(* (4800 = 48 * 100).                                                      *)

FRAC == 4                        \* resolution of delay times and delays
SAMPLES_PER_MS == 2              \* SAMPLE_RATE / 1000.0f, scaled down from 48
MAX_DELAY_MS == 2                \* scaled down from 100.0f
DELAY_BUFFER_SIZE == SAMPLES_PER_MS * MAX_DELAY_MS
DELAY_NUM_CHANNELS == 4

Channels == 0 .. (DELAY_NUM_CHANNELS - 1)
Cells == 0 .. (DELAY_BUFFER_SIZE - 1)

\* conversion to int16_t wraps modulo 2^16
ToInt16(x) == ((x + 32768) % 65536) - 32768

CLAMP(x, low, high) == IF x > high THEN high ELSE IF x < low THEN low ELSE x

\* MS_TO_SAMPLES: both sides carry the denominator FRAC
MS_TO_SAMPLES(ms) == ms * SAMPLES_PER_MS

\* (int32_t)delaySamples
IntDelay(delaySamples) == TruncDiv(delaySamples, FRAC)

----------------------------------------------------------------------------
(* Delay / phase line: functions                                           *)

\* the index loop of Delay_Reset: buffers cleared, all indices zero
Delay_ResetState(d) ==
    [d EXCEPT !.buffer = [ch \in Channels |-> [k \in Cells |-> 0]],
              !.writeIndex = 0,
              !.readIndex = [ch \in Channels |-> 0]]

\* the wrap-around loop of Delay_UpdateParameters
RECURSIVE WrapNegative(_)
WrapNegative(readPos) ==
    IF readPos < 0 THEN WrapNegative(readPos + DELAY_BUFFER_SIZE) ELSE readPos

\* read index Delay_UpdateParameters computes for one channel
UpdatedReadIndex(d, ch) ==
    LET offset  == IntDelay(d.delaySamples[ch])
        readPos == WrapNegative(d.writeIndex - offset)
    IN  readPos % DELAY_BUFFER_SIZE

Delay_UpdateParameters(d) ==
    [d EXCEPT !.readIndex = [ch \in Channels |-> UpdatedReadIndex(d, ch)]]

Delay_GetSample(d, channel, index) ==
    LET delaySamples == d.delaySamples[channel]
        intDelay == IntDelay(delaySamples)
        fraction == delaySamples - intDelay * FRAC
        sample1  == d.buffer[channel][index]
        sample2  == d.buffer[channel][(index + 1) % DELAY_BUFFER_SIZE]
    IN  IF fraction = 0
        THEN sample1
        ELSE ToInt16(TruncDiv(sample1 * (FRAC - fraction) + sample2 * fraction, FRAC))

\* the index updates that end one iteration of the sample loop
DelayAdvance_ReadStuck(d) ==
    [d EXCEPT !.writeIndex = (d.writeIndex + 1) % DELAY_BUFFER_SIZE]

DelayAdvance(d) ==
    [d EXCEPT !.writeIndex = (d.writeIndex + 1) % DELAY_BUFFER_SIZE,
              !.readIndex = [ch \in Channels |-> (d.readIndex[ch] + 1) % DELAY_BUFFER_SIZE]]

\* the channel loop of one iteration: store, read back, invert
DelayFrame(d, frame) ==
    LET stored == [d EXCEPT !.buffer = [ch \in Channels |->
                       [d.buffer[ch] EXCEPT ![d.writeIndex] = frame[ch]]]]
        out == [ch \in Channels |->
                   LET outputSample == Delay_GetSample(stored, ch, stored.readIndex[ch])
                   IN  IF stored.phaseInvert[ch] = 1 THEN ToInt16(-outputSample)
                       ELSE outputSample]
    IN  [inst |-> DelayAdvance(stored), out |-> out]

Indices(d) == [w |-> d.writeIndex, r |-> d.readIndex]

RECURSIVE DelayFrames(_, _, _, _)
DelayFrames(d, input, out, trace) ==
    IF input = <<>>
    THEN [inst |-> d, out |-> out, trace |-> trace]
    ELSE LET f == DelayFrame(d, Head(input))
         IN  DelayFrames(f.inst, Tail(input), Append(out, f.out),
                         Append(trace, Indices(f.inst)))

\* Delay_Process: deferred parameter update, then the sample loop
DelayProcess(d, input) ==
    LET u == IF d.needsUpdate = 1
             THEN [Delay_UpdateParameters(d) EXCEPT !.needsUpdate = 0]
             ELSE d
    IN  DelayFrames(u, input, <<>>, <<Indices(u)>>)

\* Delay_SetDelayTime on the instance
SetDelayTime(d, channel, delayMs) ==
    IF channel >= DELAY_NUM_CHANNELS
    THEN d
    ELSE [d EXCEPT !.delaySamples[channel] =
                       MS_TO_SAMPLES(CLAMP(delayMs, 0, MAX_DELAY_MS * FRAC)),
                   !.needsUpdate = 1]

\* Delay_SetPhaseInvert on the instance
SetPhaseInvert(d, channel, invert) ==
    IF channel >= DELAY_NUM_CHANNELS
    THEN d
    ELSE [d EXCEPT !.phaseInvert[channel] = IF invert # 0 THEN 1 ELSE 0]

RECURSIVE SetAllDelayTimes(_, _, _)
SetAllDelayTimes(d, settings, ch) ==
    IF ch >= DELAY_NUM_CHANNELS THEN d
    ELSE SetAllDelayTimes(SetDelayTime(d, ch, settings.delay[ch]), settings, ch + 1)

RECURSIVE SetAllPhaseInverts(_, _, _)
SetAllPhaseInverts(d, settings, ch) ==
    IF ch >= DELAY_NUM_CHANNELS THEN d
    ELSE SetAllPhaseInverts(SetPhaseInvert(d, ch, settings.phaseInvert[ch]), settings, ch + 1)

----------------------------------------------------------------------------
(* Delay / phase line: operations                                          *)

MaxDelaySteps == 4               \* delay operations in one run
MaxDelayBlock == 3               \* frames per Delay_Process call

ZeroFrame == [ch \in Channels |-> 0]
ImpulseFrame == [ch \in Channels |-> 1000 * (ch + 1)]
ZeroBlock(n) == [k \in 1 .. n |-> ZeroFrame]
ImpulseBlock(n) == [k \in 1 .. n |-> IF k = 1 THEN ImpulseFrame ELSE ZeroFrame]
\* one frame carrying the most negative int16_t on every channel
MinBlock == <<[ch \in Channels |-> -32768]>>
DelayBlocks == {ImpulseBlock(1), ImpulseBlock(MaxDelayBlock), ZeroBlock(MaxDelayBlock),
                MinBlock}

\* <<channel, delayMs>> arguments of Delay_SetDelayTime: below, inside and
\* above the valid range, and a channel that does not exist
DelayTimeChoices == {<<0, -1>>, <<0, 3>>, <<0, MAX_DELAY_MS * FRAC + 1>>,
                     <<3, 3>>, <<3, 6>>, <<DELAY_NUM_CHANNELS, 3>>}
PhaseChoices == {<<0, 1>>, <<3, 1>>, <<3, 0>>, <<DELAY_NUM_CHANNELS, 1>>}
DelaySettingsSet ==
    {[delay |-> [ch \in Channels |-> ch * 2], phaseInvert |-> [ch \in Channels |-> ch % 2]]}

NoImpulse == [phase |-> "off", band |-> 0, delay |-> 0]

\* Delay_Init
DelayInit ==
    /\ delayInstance = Delay_ResetState(
           [buffer |-> [ch \in Channels |-> [k \in Cells |-> 0]],
            writeIndex |-> 0,
            readIndex |-> [ch \in Channels |-> 0],
            phaseInvert |-> [ch \in Channels |-> 0],
            delaySamples |-> [ch \in Channels |-> 0],
            needsUpdate |-> 0])
    /\ delayOut = <<>>
    /\ delayTrace = <<>>
    /\ delayOp = "Delay_Init"
    /\ delayPending = {}
    /\ delayChanged = {}
    /\ delaySteps = 0
    /\ impulse = NoImpulse

Delay_Process(input) ==
    /\ delaySteps < MaxDelaySteps
    /\ LET p == DelayProcess(delayInstance, input)
       IN  /\ delayInstance' = p.inst
           /\ delayOut' = p.out
           /\ delayTrace' = p.trace
    /\ delayPending' = IF delayInstance.needsUpdate = 1 THEN {} ELSE delayPending
    /\ delayOp' = "Delay_Process"
    /\ delaySteps' = delaySteps + 1
    /\ UNCHANGED <<delayChanged, impulse>>
    /\ UNCHANGED NotDelay

Delay_SetDelayTime(channel, delayMs) ==
    /\ delaySteps < MaxDelaySteps
    /\ delayInstance' = SetDelayTime(delayInstance, channel, delayMs)
    /\ delayPending' = delayPending \cup ({channel} \cap Channels)
    /\ delayChanged' = delayChanged \cup ({channel} \cap Channels)
    /\ delayOp' = "Delay_SetDelayTime"
    /\ delaySteps' = delaySteps + 1
    /\ UNCHANGED <<delayOut, delayTrace, impulse>>
    /\ UNCHANGED NotDelay

Delay_SetPhaseInvert(channel, invert) ==
    /\ delaySteps < MaxDelaySteps
    /\ delayInstance' = SetPhaseInvert(delayInstance, channel, invert)
    /\ delayOp' = "Delay_SetPhaseInvert"
    /\ delaySteps' = delaySteps + 1
    /\ UNCHANGED <<delayOut, delayTrace, delayPending, delayChanged, impulse>>
    /\ UNCHANGED NotDelay

Delay_SetSettings(settings) ==
    /\ delaySteps < MaxDelaySteps
    /\ delayInstance' = Delay_UpdateParameters(
           SetAllPhaseInverts(SetAllDelayTimes(delayInstance, settings, 0), settings, 0))
    /\ delayPending' = {}
    /\ delayChanged' = Channels
    /\ delayOp' = "Delay_SetSettings"
    /\ delaySteps' = delaySteps + 1
    /\ UNCHANGED <<delayOut, delayTrace, impulse>>
    /\ UNCHANGED NotDelay

Delay_Reset ==
    /\ delaySteps < MaxDelaySteps
    /\ delayInstance' = Delay_ResetState(delayInstance)
    /\ delayOp' = "Delay_Reset"
    /\ delaySteps' = delaySteps + 1
    /\ UNCHANGED <<delayOut, delayTrace, delayPending, delayChanged, impulse>>
    /\ UNCHANGED NotDelay

DelayNext ==
    \/ \E input \in DelayBlocks : Delay_Process(input)
    \/ \E a \in DelayTimeChoices : Delay_SetDelayTime(a[1], a[2])
    \/ \E a \in PhaseChoices : Delay_SetPhaseInvert(a[1], a[2])
    \/ \E settings \in DelaySettingsSet : Delay_SetSettings(settings)
    \/ Delay_Reset

----------------------------------------------------------------------------
(* Delay / phase line: impulse measurement                                 *)
(* A cleared line, optionally run for a while on silence, one band's delay *)
(* set, then one block that starts with an impulse and is long enough for  *)
(* the longest delay to come out.                                          *)

ImpulseLen == DELAY_BUFFER_SIZE + 2
DelayTimes == 0 .. (MAX_DELAY_MS * FRAC)

\* Delay_Process on silence
ImpulseWarmUp(n) ==
    /\ impulse.phase = "off"
    /\ LET p == DelayProcess(delayInstance, ZeroBlock(n))
       IN  /\ delayInstance' = p.inst
           /\ delayOut' = p.out
           /\ delayTrace' = p.trace
    /\ impulse' = [impulse EXCEPT !.phase = "warm"]
    /\ delayOp' = "Delay_Process"
    /\ UNCHANGED <<delayPending, delayChanged, delaySteps>>
    /\ UNCHANGED NotDelay

\* Delay_SetDelayTime with a delay time inside the allowed range
ImpulseSetDelay(band, delayMs) ==
    /\ impulse.phase \in {"off", "warm"}
    /\ delayInstance' = SetDelayTime(delayInstance, band, delayMs)
    /\ impulse' = [phase |-> "set", band |-> band, delay |-> delayMs]
    /\ delayPending' = delayPending \cup {band}
    /\ delayChanged' = delayChanged \cup {band}
    /\ delayOp' = "Delay_SetDelayTime"
    /\ UNCHANGED <<delayOut, delayTrace, delaySteps>>
    /\ UNCHANGED NotDelay

\* Delay_Process on the impulse block
ImpulseFeed ==
    /\ impulse.phase = "set"
    /\ LET p == DelayProcess(delayInstance, ImpulseBlock(ImpulseLen))
       IN  /\ delayInstance' = p.inst
           /\ delayOut' = p.out
           /\ delayTrace' = p.trace
    /\ impulse' = [impulse EXCEPT !.phase = "fed"]
    /\ delayPending' = {}
    /\ delayOp' = "Delay_Process"
    /\ UNCHANGED <<delayChanged, delaySteps>>
    /\ UNCHANGED NotDelay

ImpulseNext ==
    \/ \E n \in 1 .. DELAY_BUFFER_SIZE : ImpulseWarmUp(n)
    \/ \E band \in Channels, delayMs \in DelayTimes : ImpulseSetDelay(band, delayMs)
    \/ ImpulseFeed

----------------------------------------------------------------------------
(* Delay / phase line: properties                                          *)

\* the relation of the design: read index = (write index - floor(delay) + capacity) mod capacity
ReadFollowsWrite(ix, delaySamples) ==
    ix.r = (ix.w - IntDelay(delaySamples) + DELAY_BUFFER_SIZE) % DELAY_BUFFER_SIZE

\* C5: once a band's delay has been changed, at every sample boundary of every
\* processed block that band's read index equals
\* (writeIndex - floor(delay) + capacity) mod capacity.
C5_ReadIndexRelation ==
    delayOp = "Delay_Process" =>
        \A ch \in delayChanged : \A k \in 1 .. Len(delayTrace) :
            ReadFollowsWrite([w |-> delayTrace[k].w, r |-> delayTrace[k].r[ch]],
                             delayInstance.delaySamples[ch])

\* rounding of a delay of q / FRAC samples to the nearest sample
RoundSamples(q) == (2 * q + FRAC) \div (2 * FRAC)

\* C6: with a delay time D of the allowed range set on a band, an impulse fed
\* into that band comes out within one sample of offset round(D * fs / 1000),
\* and every other output sample of that band is zero.
C6_ImpulseAtDelay ==
    impulse.phase = "fed" =>
        LET expected == RoundSamples(MS_TO_SAMPLES(impulse.delay))
        IN  /\ \E k \in 1 .. Len(delayOut) : delayOut[k][impulse.band] # 0
            /\ \A k \in 1 .. Len(delayOut) :
                   delayOut[k][impulse.band] # 0 => Abs((k - 1) - expected) <= 1

\* C7: a delay change on one band leaves the buffers, the write index, the phase
\* flags and the other bands' delays as they were, both in the setter call and
\* in the index update it schedules, and moves no other band's read index.
C7_OnlyThatBand ==
    [][/\ (delayOp' = "Delay_SetDelayTime" =>
              /\ delayInstance'.buffer = delayInstance.buffer
              /\ delayInstance'.writeIndex = delayInstance.writeIndex
              /\ delayInstance'.phaseInvert = delayInstance.phaseInvert
              /\ delayInstance'.readIndex = delayInstance.readIndex
              /\ \E c \in Channels : \A ch \in Channels \ {c} :
                     delayInstance'.delaySamples[ch] = delayInstance.delaySamples[ch])
       /\ (delayOp' = "Delay_Process" /\ delayInstance.needsUpdate = 1 /\ delayPending # {} =>
              /\ delayTrace'[1].w = delayInstance.writeIndex
              /\ \A ch \in Channels \ delayPending :
                     delayTrace'[1].r[ch] = delayInstance.readIndex[ch])
      ]_vars

\* C8: within a processed block every sample advances the write index and all
\* four read indices by exactly one modulo the capacity, and every index is
\* inside [0, capacity).
C8_IndicesAdvance ==
    /\ delayInstance.writeIndex \in Cells
    /\ \A ch \in Channels : delayInstance.readIndex[ch] \in Cells
    /\ delayOp = "Delay_Process" =>
           \A k \in 1 .. (Len(delayTrace) - 1) :
               /\ delayTrace[k + 1].w = (delayTrace[k].w + 1) % DELAY_BUFFER_SIZE
               /\ delayTrace[k + 1].w \in Cells
               /\ \A ch \in Channels :
                      /\ delayTrace[k + 1].r[ch] = (delayTrace[k].r[ch] + 1) % DELAY_BUFFER_SIZE
                      /\ delayTrace[k + 1].r[ch] \in Cells

\* a block in which the write index wraps while a delayed band's read index
\* runs behind it
C8_Witness ==
    /\ delayOp = "Delay_Process"
    /\ \E k \in 1 .. (Len(delayTrace) - 1) :
           /\ delayTrace[k].w = DELAY_BUFFER_SIZE - 1
           /\ delayTrace[k + 1].w = 0
           /\ \E ch \in Channels : delayTrace[k].r[ch] # delayTrace[k].w

\* C18: for the same input and delay, the block a band puts out with
\* phase-invert set is the sample-for-sample negation of the block it puts
\* out with phase-invert clear, for every sample value; the other bands'
\* output, the indices and the buffer contents are the same in both, and the
\* setter itself changes nothing but the flag.
C18_InvertNegates ==
    [][/\ (delayOp' = "Delay_Process" /\ delaySteps' # delaySteps) =>
            \A input \in DelayBlocks, ch \in Channels :
                LET plain == DelayProcess(SetPhaseInvert(delayInstance, ch, 0), input)
                    inv == DelayProcess(SetPhaseInvert(delayInstance, ch, 1), input)
                IN  (delayOut' \in {plain.out, inv.out}
                         /\ delayInstance' \in {plain.inst, inv.inst}) =>
                      /\ \A k \in 1 .. Len(input) :
                             /\ inv.out[k][ch] = -plain.out[k][ch]
                             /\ \A o \in Channels \ {ch} : inv.out[k][o] = plain.out[k][o]
                      /\ inv.inst = [plain.inst EXCEPT !.phaseInvert[ch] = 1]
                      /\ inv.trace = plain.trace
       /\ (delayOp' = "Delay_SetPhaseInvert" /\ delaySteps' # delaySteps) =>
            \/ delayInstance' = delayInstance
            \/ \E ch \in Channels, v \in {0, 1} :
                   delayInstance' = [delayInstance EXCEPT !.phaseInvert[ch] = v]
      ]_vars

----------------------------------------------------------------------------
(* Settings read back: crossover and delay setters and getters together    *)

MaxSetterCalls == 4              \* crossover and delay operations in one run

\* Crossover_GetSettings: a copy of currentSettings
Crossover_GetSettings(settings) == settings

\* a getter that hands out the delay in samples
Delay_GetSettings_Samples(d) ==
    [delay |-> [ch \in Channels |-> d.delaySamples[ch]],
     phaseInvert |-> [ch \in Channels |-> d.phaseInvert[ch]]]

\* Delay_GetSettings: delaySamples / (SAMPLE_RATE / 1000.0f) and the phase flags
Delay_GetSettings(d) ==
    [delay |-> [ch \in Channels |-> TruncDiv(d.delaySamples[ch], SAMPLES_PER_MS)],
     phaseInvert |-> [ch \in Channels |-> d.phaseInvert[ch]]]

ReadBackSettings == {st \in XoverSettingsSet : st.filterOrder = 4 /\ st.filterType = 0}

SettersBudget == xoverSteps + delaySteps < MaxSetterCalls

SettersNext ==
    \/ \E settings \in ReadBackSettings : SettersBudget /\ Crossover_SetSettings(settings)
    \/ \E sampleRate \in SampleRates : SettersBudget /\ Crossover_SetSampleRate(sampleRate)
    \/ \E a \in DelayTimeChoices : SettersBudget /\ Delay_SetDelayTime(a[1], a[2])
    \/ \E a \in PhaseChoices : SettersBudget /\ Delay_SetPhaseInvert(a[1], a[2])
    \/ \E settings \in DelaySettingsSet : SettersBudget /\ Delay_SetSettings(settings)
    \/ SettersBudget /\ Delay_Process(ImpulseBlock(1))

\* C22: after any sequence of setter calls the getters return the values in
\* effect for processing: the crossover cutoffs, type, order and mutes held by
\* the filter bank, its linear gains expressed in dB, and for every band the
\* delay in effect expressed in ms and the phase flag.
C22_GettersMatch ==
    /\ LET g == Crossover_GetSettings(currentSettings)
       IN  /\ g.lowCutoff = crossoverFilters.lowCutoff
           /\ g.midCutoff = crossoverFilters.midCutoff
           /\ g.highCutoff = crossoverFilters.highCutoff
           /\ g.filterType = crossoverFilters.filterType
           /\ g.filterOrder = crossoverFilters.filterOrder
           /\ g.mute = crossoverFilters.mute
           /\ \A b \in Bands : DB_TO_LINEAR(g.gain[b]) = crossoverFilters.gain[b]
    /\ LET g == Delay_GetSettings(delayInstance)
       IN  \A ch \in Channels :
               /\ MS_TO_SAMPLES(g.delay[ch]) = delayInstance.delaySamples[ch]
               /\ g.phaseInvert[ch] = delayInstance.phaseInvert[ch]

\* both modules have been set away from their defaults: changed cutoffs and
\* gains in the filter bank, a delay and an inverted phase in the delay line
C22_Witness ==
    /\ xoverOp = "Crossover_SetSettings"
    /\ crossoverFilters.lowCutoff # DEFAULT_LOW_CUTOFF
    /\ \E ch \in Channels : delayInstance.delaySamples[ch] > 0
    /\ \E ch \in Channels : delayInstance.phaseInvert[ch] = 1
    /\ delayOp = "Delay_Process"

----------------------------------------------------------------------------
(* Block pipeline: constants and helpers                                   *)
(* A float sample v is the integer v * MAX_SAMPLE_VALUE, so ConvertToFloat *)
(* and ConvertToInt16 scale by exactly the factor the code uses.           *)

MAX_SAMPLE_VALUE == 32767
MIN_SAMPLE_VALUE == -32768
MonoFrames == 1                  \* frames per block, scaled down from AUDIO_BUFFER_SIZE / 2
AUDIO_BUFFER_SIZE == 2 * MonoFrames

BandOrder == <<"sub", "low", "mid", "high">>
FrameIdx == 1 .. MonoFrames

Max(a, b) == IF a > b THEN a ELSE b

RECURSIVE SeqMaxAbs(_)
SeqMaxAbs(buf) == IF buf = <<>> THEN 0 ELSE Max(Abs(Head(buf)), SeqMaxAbs(Tail(buf)))

Log(s, band, call) == [s EXCEPT !.log = Append(s.log, [band |-> band, call |-> call])]

\* ConvertToFloat: de-interleave; input[k] * (1 / MAX_SAMPLE_VALUE)
ConvertToFloat(input) ==
    [L |-> [i \in FrameIdx |-> input[2 * i - 1]], R |-> [i \in FrameIdx |-> input[2 * i]]]

\* peak-hold with decay 0.8f, one channel of UpdatePeakLevels
PeakHold(buf, peak) ==
    LET m == SeqMaxAbs(buf) IN IF m > peak THEN m ELSE TruncDiv(peak * 8, 10)

UpdatePeakLevels(bufL, bufR, peaks) ==
    [L |-> PeakHold(bufL, peaks.L), R |-> PeakHold(bufR, peaks.R)]

\* ApplyGain: dB to linear, then every sample multiplied
\* buffer[i] *= gain for a linear gain >= 0, the product split into the whole
\* and the fractional part of the gain (the same value as Mul, in 32 bits)
MulGain(v, gain) == v * (gain \div FP) + TruncDiv(v * (gain % FP), FP)

ApplyGain(buf, gainDB) == [i \in FrameIdx |-> MulGain(buf[i], DB_TO_LINEAR(gainDB))]

\* ConvertToInt16: clamp and count, interleave
\* the sample handed to the integer conversion as it is
ClampSample_None(v) == v

ClampSample(v) == CLAMP(v, MIN_SAMPLE_VALUE, MAX_SAMPLE_VALUE)
Clipped(v) == IF v > MAX_SAMPLE_VALUE \/ v < MIN_SAMPLE_VALUE THEN 1 ELSE 0

\* one count per frame, however many of its two samples clip
RECURSIVE CountClipped_PerFrame(_, _, _)
CountClipped_PerFrame(bufL, bufR, i) ==
    IF i > MonoFrames THEN 0
    ELSE Max(Clipped(bufL[i]), Clipped(bufR[i])) + CountClipped_PerFrame(bufL, bufR, i + 1)

RECURSIVE CountClipped(_, _, _)
CountClipped(bufL, bufR, i) ==
    IF i > MonoFrames THEN 0
    ELSE Clipped(bufL[i]) + Clipped(bufR[i]) + CountClipped(bufL, bufR, i + 1)

ConvertToInt16(bufL, bufR) ==
    [k \in 1 .. AUDIO_BUFFER_SIZE |->
        IF k % 2 = 1 THEN ToInt16(ClampSample(bufL[(k + 1) \div 2]))
        ELSE ToInt16(ClampSample(bufR[k \div 2]))]

\* MixBands, one channel
MixBands(buf) == [i \in FrameIdx |-> buf["sub"][i] + buf["low"][i] + buf["mid"][i] + buf["high"][i]]

(* The callees below are declared in headers that are not part of the    *)
(* sources at hand (the eleven-argument Crossover_Process, compressor.h, *)
(* limiter.h, the six-argument Delay_Process); they follow the design    *)
(* description.                                                          *)

\* band split: the input lands in band sel, or is spread over all four
PipeCrossover(buf, sel) ==
    [b \in Bands |-> [i \in FrameIdx |->
        IF sel = "spread" THEN TruncDiv(buf[i], 4) ELSE IF b = sel THEN buf[i] ELSE 0]]

\* static gain curve above a linear threshold
CompressSample(v, p) ==
    IF Abs(v) <= p.threshold THEN v
    ELSE LET m == p.threshold + TruncDiv(Abs(v) - p.threshold, p.ratio)
         IN  IF v < 0 THEN -m ELSE m
Compressor_Process(buf, p) == [i \in FrameIdx |-> CompressSample(buf[i], p)]

LimitSample(v, p) == CLAMP(v, -p.threshold, p.threshold)
Limiter_Process(buf, p) == [i \in FrameIdx |-> LimitSample(buf[i], p)]

\* one band of the delay / phase line: delay counted in frames, 0 or 1
PipeDelayOut(buf, mem, delayFrames, phaseInvert) ==
    [i \in FrameIdx |->
        LET v == IF delayFrames = 0 THEN buf[i]
                 ELSE IF i = 1 THEN mem ELSE buf[i - 1]
        IN  IF phaseInvert = 1 THEN -v ELSE v]
PipeDelayMem(buf, mem, delayFrames) == IF delayFrames = 0 THEN mem ELSE buf[MonoFrames]

----------------------------------------------------------------------------
(* Block pipeline: the band loop of AudioProcessing_Process                *)
(* s carries the band buffers, the delay memory, the statistics and the    *)
(* log of calls: [L, R, mem, stats, log].                                  *)

\* mute: both buffers zeroed, the rest of the iteration skipped
MuteStep_LeftOnly(s, band) ==
    Log([s EXCEPT !.L[band] = [i \in FrameIdx |-> 0]], band, "mute")

MuteStep(s, band) ==
    Log([s EXCEPT !.L[band] = [i \in FrameIdx |-> 0],
                  !.R[band] = [i \in FrameIdx |-> 0]], band, "mute")

GainStep(s, band, gainDB) ==
    Log(Log([s EXCEPT !.L[band] = ApplyGain(s.L[band], gainDB),
                      !.R[band] = ApplyGain(s.R[band], gainDB)],
            band, "ApplyGain"), band, "ApplyGain")

PeakStep(s, band) ==
    Log([s EXCEPT !.stats.bandPeakLevel[band] =
             UpdatePeakLevels(s.L[band], s.R[band], s.stats.bandPeakLevel[band])],
        band, "UpdatePeakLevels")

CompStep(s, band, p) ==
    IF p.enabled = 1
    THEN LET l == Compressor_Process(s.L[band], p)
             r == Compressor_Process(s.R[band], p)
             amount == Max(SeqMaxAbs(s.L[band]) - SeqMaxAbs(l),
                           SeqMaxAbs(s.R[band]) - SeqMaxAbs(r))
         IN  Log([s EXCEPT !.L[band] = l, !.R[band] = r,
                           !.stats.compressionAmount[band] = amount],
                 band, "Compressor_Process")
    ELSE [s EXCEPT !.stats.compressionAmount[band] = 0]

LimStep(s, band, p) ==
    IF p.enabled = 1
    THEN LET l == Limiter_Process(s.L[band], p)
             r == Limiter_Process(s.R[band], p)
             amount == Max(SeqMaxAbs(s.L[band]) - SeqMaxAbs(l),
                           SeqMaxAbs(s.R[band]) - SeqMaxAbs(r))
         IN  Log([s EXCEPT !.L[band] = l, !.R[band] = r,
                           !.stats.limiterActivity[band] = amount],
                 band, "Limiter_Process")
    ELSE [s EXCEPT !.stats.limiterActivity[band] = 0]

DelayStep(s, band, delayFrames, phaseInvert) ==
    Log([s EXCEPT !.L[band] = PipeDelayOut(s.L[band], s.mem[band].L, delayFrames, phaseInvert),
                  !.R[band] = PipeDelayOut(s.R[band], s.mem[band].R, delayFrames, phaseInvert),
                  !.mem[band] = [L |-> PipeDelayMem(s.L[band], s.mem[band].L, delayFrames),
                                 R |-> PipeDelayMem(s.R[band], s.mem[band].R, delayFrames)]],
        band, "Delay_Process")

\* a band loop body that runs the compressor ahead of the band meter
ProcessBand_CompFirst(s, band, settings) ==
    IF settings.crossover.mute[band] # 0
    THEN MuteStep(s, band)
    ELSE DelayStep(
           LimStep(
             PeakStep(
               CompStep(
                 GainStep(s, band, settings.crossover.gain[band]),
                 band, settings.compressor[band]),
               band),
             band, settings.limiter[band]),
           band, settings.delay.delay[band], settings.delay.phaseInvert[band])

\* one iteration of the band loop
ProcessBand(s, band, settings) ==
    IF settings.crossover.mute[band] # 0
    THEN MuteStep(s, band)
    ELSE DelayStep(
           LimStep(
             CompStep(
               PeakStep(
                 GainStep(s, band, settings.crossover.gain[band]),
                 band),
               band, settings.compressor[band]),
             band, settings.limiter[band]),
           band, settings.delay.delay[band], settings.delay.phaseInvert[band])

RECURSIVE ProcessBands(_, _, _)
ProcessBands(s, n, settings) ==
    IF n > Len(BandOrder) THEN s
    ELSE ProcessBands(ProcessBand(s, BandOrder[n], settings), n + 1, settings)

\* AudioProcessing_Process with bypass off; sel is the crossover's band split
ProcessBlock(input, settings, stats, mem, sel) ==
    LET in == ConvertToFloat(input)
        s0 == [L |-> PipeCrossover(in.L, sel), R |-> PipeCrossover(in.R, sel), mem |-> mem,
               stats |-> [stats EXCEPT !.inputPeakLevel =
                              UpdatePeakLevels(in.L, in.R, stats.inputPeakLevel)],
               log |-> <<[band |-> "all", call |-> "ConvertToFloat"],
                         [band |-> "all", call |-> "UpdatePeakLevels"],
                         [band |-> "all", call |-> "Crossover_Process"]>>]
        s1 == ProcessBands(s0, 1, settings)
        mixL == MixBands(s1.L)
        mixR == MixBands(s1.R)
        s2 == Log(Log(Log(Log(s1, "all", "MixBands"), "all", "UpdatePeakLevels"),
                      "all", "ConvertToInt16"), "all", "GetProcessingTime")
    IN  [L |-> s1.L, R |-> s1.R, mem |-> s1.mem, log |-> s2.log,
         split |-> [L |-> s0.L, R |-> s0.R],
         mix |-> [L |-> mixL, R |-> mixR],
         output |-> ConvertToInt16(mixL, mixR),
         stats |-> [s1.stats EXCEPT
                      !.outputPeakLevel = UpdatePeakLevels(mixL, mixR, s1.stats.outputPeakLevel),
                      !.clippingCount = s1.stats.clippingCount + CountClipped(mixL, mixR, 1)]]

----------------------------------------------------------------------------
(* Block pipeline: operations                                              *)

MaxPipeSteps == 3                \* pipeline operations in one run

PipeInputs == {[k \in 1 .. AUDIO_BUFFER_SIZE |-> IF k % 2 = 1 THEN 20000 ELSE -8000],
               [k \in 1 .. AUDIO_BUFFER_SIZE |-> IF k % 2 = 1 THEN 0 ELSE 3000],
               [k \in 1 .. AUDIO_BUFFER_SIZE |->
                   IF k % 2 = 1 THEN MAX_SAMPLE_VALUE ELSE -MAX_SAMPLE_VALUE]}
SplitChoices == {"low", "mid", "spread"}

CompOff == [threshold |-> 10000, ratio |-> 4, enabled |-> 0]
CompOn == [threshold |-> 10000, ratio |-> 4, enabled |-> 1]
LimOff == [threshold |-> 15000, enabled |-> 0]
LimOn == [threshold |-> 15000, enabled |-> 1]

PipeSettings(mute, comp, lim, delayFrames, invert) ==
    [crossover |-> [gain |-> [b \in Bands |-> IF b = "low" THEN 20 ELSE 0], mute |-> mute],
     compressor |-> [b \in Bands |-> comp],
     limiter |-> [b \in Bands |-> lim],
     delay |-> [delay |-> [b \in Bands |-> delayFrames],
                phaseInvert |-> [b \in Bands |-> IF b = "mid" THEN invert ELSE 0]]]

MuteNone == [b \in Bands |-> 0]
MuteMid == [b \in Bands |-> IF b = "mid" THEN 1 ELSE 0]
MuteLowHigh == [b \in Bands |-> IF b \in {"low", "high"} THEN 1 ELSE 0]

\* the SystemSettings_t records the configuration layer installs
PipeSettingsSet ==
    {PipeSettings(MuteNone, CompOff, LimOff, 0, 0),
     PipeSettings(MuteNone, CompOn, LimOn, 1, 1),
     PipeSettings(MuteNone, CompOn, LimOff, 0, 0),
     PipeSettings(MuteNone, CompOff, LimOn, 1, 0),
     PipeSettings(MuteMid, CompOn, LimOn, 1, 1),
     PipeSettings(MuteMid, CompOff, LimOff, 1, 0),
     PipeSettings(MuteLowHigh, CompOn, LimOn, 1, 0)}

ZeroStats ==
    [inputPeakLevel |-> [L |-> 0, R |-> 0], outputPeakLevel |-> [L |-> 0, R |-> 0],
     bandPeakLevel |-> [b \in Bands |-> [L |-> 0, R |-> 0]],
     compressionAmount |-> [b \in Bands |-> 0], limiterActivity |-> [b \in Bands |-> 0],
     clippingCount |-> 0]

ZeroBands == [b \in Bands |-> [i \in FrameIdx |-> 0]]

\* AudioProcessing_Init, with the zero-initialised buffers of main.c
PipeInit ==
    /\ systemSettings = PipeSettings(MuteNone, CompOff, LimOff, 0, 0)
    /\ bypassEnabled = 0
    /\ inputBuffer = [k \in 1 .. AUDIO_BUFFER_SIZE |-> 0]
    /\ outputBuffer = [k \in 1 .. AUDIO_BUFFER_SIZE |-> 0]
    /\ bandBufferL = ZeroBands
    /\ bandBufferR = ZeroBands
    /\ bandSplit = [L |-> ZeroBands, R |-> ZeroBands]
    /\ bandDelayMem = [b \in Bands |-> [L |-> 0, R |-> 0]]
    /\ audioStats = ZeroStats
    /\ callLog = <<>>
    /\ pipeOp = "AudioProcessing_Init"
    /\ pipeSteps = 0

\* the configuration layer replaces the settings record between blocks
LoadSettingsWithin(settings, maxSteps) ==
    /\ pipeSteps < maxSteps
    /\ systemSettings' = settings
    /\ pipeOp' = "LoadSettings"
    /\ pipeSteps' = pipeSteps + 1
    /\ UNCHANGED <<bypassEnabled, inputBuffer, outputBuffer, bandBufferL, bandBufferR,
                   bandSplit, bandDelayMem, audioStats, callLog>>
    /\ UNCHANGED NotPipe

LoadSettings(settings) == LoadSettingsWithin(settings, MaxPipeSteps)

AudioProcessing_SetBypass(enable) ==
    /\ pipeSteps < MaxPipeSteps
    /\ bypassEnabled' = IF enable # 0 THEN 1 ELSE 0
    /\ pipeOp' = "AudioProcessing_SetBypass"
    /\ pipeSteps' = pipeSteps + 1
    /\ UNCHANGED <<systemSettings, inputBuffer, outputBuffer, bandBufferL, bandBufferR,
                   bandSplit, bandDelayMem, audioStats, callLog>>
    /\ UNCHANGED NotPipe

\* a copy of AUDIO_BUFFER_SIZE bytes instead of AUDIO_BUFFER_SIZE entries
BypassCopy_Bytes(output, input) ==
    [k \in 1 .. AUDIO_BUFFER_SIZE |->
        IF 2 * k <= AUDIO_BUFFER_SIZE THEN input[k] ELSE output[k]]

\* memcpy(pOutputBuffer->data, pInputBuffer->data, AUDIO_BUFFER_SIZE * sizeof(int16_t))
BypassCopy(output, input) ==
    [k \in 1 .. AUDIO_BUFFER_SIZE |-> input[k]]

\* AudioProcessing_Process, bypass branch
ProcessBypass(input) ==
    /\ pipeSteps < MaxPipeSteps
    /\ bypassEnabled # 0
    /\ inputBuffer' = input
    /\ outputBuffer' = BypassCopy(outputBuffer, input)
    /\ LET in == ConvertToFloat(input)
           pk == UpdatePeakLevels(in.L, in.R, audioStats.inputPeakLevel)
       IN  audioStats' = [audioStats EXCEPT !.inputPeakLevel = pk, !.outputPeakLevel = pk]
    /\ callLog' = <<[band |-> "all", call |-> "memcpy"],
                    [band |-> "all", call |-> "ConvertToFloat"],
                    [band |-> "all", call |-> "UpdatePeakLevels"]>>
    /\ pipeOp' = "AudioProcessing_Process_bypass"
    /\ pipeSteps' = pipeSteps + 1
    /\ UNCHANGED <<systemSettings, bypassEnabled, bandBufferL, bandBufferR, bandSplit,
                   bandDelayMem>>
    /\ UNCHANGED NotPipe

\* AudioProcessing_Process, full chain
ProcessChainWithin(input, sel, maxSteps) ==
    /\ pipeSteps < maxSteps
    /\ bypassEnabled = 0
    /\ inputBuffer' = input
    /\ LET r == ProcessBlock(input, systemSettings, audioStats, bandDelayMem, sel)
       IN  /\ outputBuffer' = r.output
           /\ bandBufferL' = r.L
           /\ bandBufferR' = r.R
           /\ bandSplit' = r.split
           /\ bandDelayMem' = r.mem
           /\ audioStats' = r.stats
           /\ callLog' = r.log
    /\ pipeOp' = "AudioProcessing_Process"
    /\ pipeSteps' = pipeSteps + 1
    /\ UNCHANGED <<systemSettings, bypassEnabled>>
    /\ UNCHANGED NotPipe

ProcessChain(input, sel) == ProcessChainWithin(input, sel, MaxPipeSteps)

PipeNext ==
    \/ \E settings \in PipeSettingsSet : LoadSettings(settings)
    \/ \E enable \in {0, 1} : AudioProcessing_SetBypass(enable)
    \/ \E input \in PipeInputs : ProcessBypass(input)
    \/ \E input \in PipeInputs, sel \in SplitChoices : ProcessChain(input, sel)

----------------------------------------------------------------------------
(* Block pipeline: properties                                              *)

Muted(b) == systemSettings.crossover.mute[b] # 0

\* what band b puts into the mix at frame i, muted bands counted as silence
Contribution(buf, b, i) == IF Muted(b) THEN 0 ELSE buf[b][i]
UnmutedMix(buf) ==
    [i \in FrameIdx |-> Contribution(buf, "sub", i) + Contribution(buf, "low", i)
                        + Contribution(buf, "mid", i) + Contribution(buf, "high", i)]

\* C9: in a processed block every sample a muted band hands to the mix is
\* zero on both channels, so the output is the mix of the unmuted bands alone,
\* whatever the gain, compressor, limiter, delay and phase settings.
C9_MutedBandSilent ==
    pipeOp = "AudioProcessing_Process" =>
        /\ \A b \in Bands : Muted(b) =>
               \A i \in FrameIdx : bandBufferL[b][i] = 0 /\ bandBufferR[b][i] = 0
        /\ outputBuffer = ConvertToInt16(UnmutedMix(bandBufferL), UnmutedMix(bandBufferR))

\* a muted band that received signal on both channels from the crossover,
\* with its compressor, limiter, delay and phase inversion switched on
C9_Witness ==
    /\ pipeOp = "AudioProcessing_Process"
    /\ Muted("mid")
    /\ bandSplit.L["mid"][1] # 0
    /\ bandSplit.R["mid"][1] # 0
    /\ systemSettings.compressor["mid"].enabled = 1
    /\ systemSettings.delay.phaseInvert["mid"] = 1

RECURSIVE CallsOf(_, _)
CallsOf(log, band) ==
    IF log = <<>> THEN <<>>
    ELSE IF Head(log).band = band THEN <<Head(log).call>> \o CallsOf(Tail(log), band)
    ELSE CallsOf(Tail(log), band)

\* the calls band b must see, in order
ExpectedCalls(b) ==
    <<"ApplyGain", "ApplyGain", "UpdatePeakLevels">>
    \o (IF systemSettings.compressor[b].enabled = 1 THEN <<"Compressor_Process">> ELSE <<>>)
    \o (IF systemSettings.limiter[b].enabled = 1 THEN <<"Limiter_Process">> ELSE <<>>)
    \o <<"Delay_Process">>

\* the signal of band b after gain, compressor and limiter, in that order
Shaped(split, b) ==
    LET g == ApplyGain(split[b], systemSettings.crossover.gain[b])
        c == IF systemSettings.compressor[b].enabled = 1
             THEN Compressor_Process(g, systemSettings.compressor[b]) ELSE g
    IN  IF systemSettings.limiter[b].enabled = 1
        THEN Limiter_Process(c, systemSettings.limiter[b]) ELSE c

\* what the delay line of band b holds or returns for that signal
Delayed(shaped, buf, mem, b) ==
    IF systemSettings.delay.delay[b] = 0
    THEN buf = PipeDelayOut(shaped, 0, 0, systemSettings.delay.phaseInvert[b])
    ELSE mem = shaped[MonoFrames]

\* C10: in every non-bypass block each unmuted band sees gain, its peak meter,
\* the compressor if enabled, the limiter if enabled and the delay line, in
\* that order and once each: the calls are logged in that order, the meter
\* reads the signal after gain and before the compressor, the delay line
\* receives the signal after the limiter; all band calls precede the one mix.
C10_BandOrder ==
    [][(pipeOp' = "AudioProcessing_Process" /\ pipeSteps' # pipeSteps) =>
          /\ \A b \in Bands : ~Muted(b)' =>
                 /\ CallsOf(callLog', b) = ExpectedCalls(b)'
                 /\ audioStats'.bandPeakLevel[b] =
                        UpdatePeakLevels(
                            ApplyGain(bandSplit'.L[b], systemSettings'.crossover.gain[b]),
                            ApplyGain(bandSplit'.R[b], systemSettings'.crossover.gain[b]),
                            audioStats.bandPeakLevel[b])
                 /\ Delayed(Shaped(bandSplit.L, b), bandBufferL[b], bandDelayMem[b].L, b)'
                 /\ Delayed(Shaped(bandSplit.R, b), bandBufferR[b], bandDelayMem[b].R, b)'
          /\ \E m \in 1 .. Len(callLog') :
                 /\ callLog'[m].call = "MixBands"
                 /\ \A k \in 1 .. Len(callLog') :
                        /\ callLog'[k].band \in Bands => k < m
                        /\ callLog'[k].call = "MixBands" => k = m
      ]_vars

\* a block in which an unmuted band with 20 dB of gain had its compressor and
\* its limiter both reduce the signal before the delay line
C10_Witness ==
    /\ pipeOp = "AudioProcessing_Process"
    /\ \A b \in Bands : ~Muted(b)
    /\ audioStats.compressionAmount["low"] > 0
    /\ audioStats.limiterActivity["low"] > 0
    /\ bandDelayMem["low"].L # 0

\* C11: with bypass enabled a block-processing call leaves the output block
\* equal to the input block entry for entry, full-scale values included.
C11_BypassIdentity ==
    pipeOp = "AudioProcessing_Process_bypass" =>
        \A k \in 1 .. AUDIO_BUFFER_SIZE : outputBuffer[k] = inputBuffer[k]

\* a bypassed block of full-scale samples of both signs
C11_Witness ==
    /\ pipeOp = "AudioProcessing_Process_bypass"
    /\ inputBuffer[1] = MAX_SAMPLE_VALUE
    /\ inputBuffer[2] = -MAX_SAMPLE_VALUE

\* the mix the integer conversion receives, from the band buffers of the block
MixL == MixBands(bandBufferL)
MixR == MixBands(bandBufferR)
OutOfRange(v) == v > MAX_SAMPLE_VALUE \/ v < MIN_SAMPLE_VALUE
OverRangeSamples ==
    {<<ch, i>> \in {"L", "R"} \X FrameIdx :
        OutOfRange(IF ch = "L" THEN MixL[i] ELSE MixR[i])}

\* C12: a non-bypass block raises the clip counter by the number of its output
\* samples, left and right counted separately, whose value before clamping is
\* outside the 16-bit range.
C12_ClipCount ==
    [][(pipeOp' = "AudioProcessing_Process" /\ pipeSteps' # pipeSteps) =>
          audioStats'.clippingCount =
              audioStats.clippingCount + Cardinality(OverRangeSamples')]_vars

\* a block whose left sample clips above and whose right sample clips below,
\* after an earlier block in which nothing clipped
C12_Witness ==
    /\ pipeOp = "AudioProcessing_Process"
    /\ pipeSteps > 1
    /\ audioStats.clippingCount = 2
    /\ MixL[1] > MAX_SAMPLE_VALUE
    /\ MixR[1] < MIN_SAMPLE_VALUE

\* C13: every output sample of a processed block is the mix value clamped to
\* [-32768, 32767]: the nearest bound for a value outside, the value itself
\* inside, never a wrapped value.
C13_OutputClamped ==
    pipeOp = "AudioProcessing_Process" =>
        \A i \in FrameIdx :
            /\ outputBuffer[2 * i - 1] \in MIN_SAMPLE_VALUE .. MAX_SAMPLE_VALUE
            /\ outputBuffer[2 * i] \in MIN_SAMPLE_VALUE .. MAX_SAMPLE_VALUE
            /\ outputBuffer[2 * i - 1] =
                   (IF MixL[i] > MAX_SAMPLE_VALUE THEN MAX_SAMPLE_VALUE
                    ELSE IF MixL[i] < MIN_SAMPLE_VALUE THEN MIN_SAMPLE_VALUE ELSE MixL[i])
            /\ outputBuffer[2 * i] =
                   (IF MixR[i] > MAX_SAMPLE_VALUE THEN MAX_SAMPLE_VALUE
                    ELSE IF MixR[i] < MIN_SAMPLE_VALUE THEN MIN_SAMPLE_VALUE ELSE MixR[i])

\* a block with one sample clamped to each bound
C13_Witness ==
    /\ pipeOp = "AudioProcessing_Process"
    /\ MixL[1] > MAX_SAMPLE_VALUE
    /\ MixR[1] < MIN_SAMPLE_VALUE
    /\ outputBuffer[1] = MAX_SAMPLE_VALUE
    /\ outputBuffer[2] = MIN_SAMPLE_VALUE

\* a band whose signal passes from the gain stage to the mix untouched
GainOnly(b) ==
    /\ ~Muted(b)
    /\ systemSettings.compressor[b].enabled = 0
    /\ systemSettings.limiter[b].enabled = 0
    /\ systemSettings.delay.delay[b] = 0
    /\ systemSettings.delay.phaseInvert[b] = 0

\* C17: the factor multiplied into a band's samples during a block is the
\* gain value held in the settings, a linear factor stored when the settings
\* were set: no conversion from dB takes place while the block is processed.
C17_StoredLinearGain ==
    pipeOp = "AudioProcessing_Process" =>
        \A b \in Bands : GainOnly(b) =>
            \A i \in FrameIdx :
                /\ bandBufferL[b][i] =
                       MulGain(bandSplit.L[b][i], systemSettings.crossover.gain[b] * FP)
                /\ bandBufferR[b][i] =
                       MulGain(bandSplit.R[b][i], systemSettings.crossover.gain[b] * FP)

\* metering over longer runs: settings changes and blocks of one loud input
MaxMeterSteps == 4
MeterInput == [k \in 1 .. AUDIO_BUFFER_SIZE |-> IF k % 2 = 1 THEN 20000 ELSE -8000]
MeterSplits == {"mid", "spread"}

MeterLoadSettings(settings) == LoadSettingsWithin(settings, MaxMeterSteps)
MeterProcess(sel) == ProcessChainWithin(MeterInput, sel, MaxMeterSteps)

MeterNext ==
    \/ \E settings \in PipeSettingsSet : MeterLoadSettings(settings)
    \/ \E sel \in MeterSplits : MeterProcess(sel)

NoAmounts == [b \in Bands |-> 0]

\* C21: a block-processing call leaves in the statistics, for every band, the
\* compression amount and the limiter gain reduction of that block: what the
\* call would record had no earlier block left any value there.
C21_StatsOverwritten ==
    [][(pipeOp' = "AudioProcessing_Process" /\ pipeSteps' # pipeSteps) =>
          \A sel \in SplitChoices :
              LET fresh == [audioStats EXCEPT !.compressionAmount = NoAmounts,
                                             !.limiterActivity = NoAmounts]
                  r == ProcessBlock(inputBuffer', systemSettings, fresh, bandDelayMem, sel)
              IN  r.split = bandSplit' =>
                      /\ audioStats'.compressionAmount = r.stats.compressionAmount
                      /\ audioStats'.limiterActivity = r.stats.limiterActivity
      ]_vars

----------------------------------------------------------------------------
(* Main loop and interrupt handlers (main.c)                               *)
(* The audio driver behind AudioDriver_IsBufferReady, _GetSamples,         *)
(* _SendSamples and the two _Notify calls is not among the sources; it     *)
(* follows the design description: a transfer-complete callback raises a   *)
(* flag, the fetch takes the block and lowers the flag.                    *)

UI_REFRESH_INTERVAL == 10
MaxTicks == 10                   \* TIM2 interrupts in one run
MaxBlocks == 2                   \* input transfers completed in one run
MaxEvents == 2                   \* input events detected by the TIM3 sampling in one run

\* HAL_TIM_PeriodElapsedCallback that acts on a detected input at once
HAL_TIM_PeriodElapsedCallback_Handles(m, instance, detected) ==
    IF instance = 2
    THEN [m EXCEPT !.systemTick = m.systemTick + 1,
                   !.needsRefresh = IF (m.systemTick + 1) % UI_REFRESH_INTERVAL = 0
                                    THEN 1 ELSE m.needsRefresh]
    ELSE IF detected
         THEN [m EXCEPT !.detected = m.detected + 1, !.setterCalls = m.setterCalls + 1]
         ELSE m

\* HAL_TIM_PeriodElapsedCallback: TIM2 counts the tick and asks for a refresh,
\* TIM3 samples encoder and buttons, which queues an event when one is detected
HAL_TIM_PeriodElapsedCallback(m, instance, detected) ==
    IF instance = 2
    THEN [m EXCEPT !.systemTick = m.systemTick + 1,
                   !.needsRefresh = IF (m.systemTick + 1) % UI_REFRESH_INTERVAL = 0
                                    THEN 1 ELSE m.needsRefresh]
    ELSE IF detected
         THEN [m EXCEPT !.detected = m.detected + 1, !.queued = m.queued + 1]
         ELSE m

\* HAL_I2S_RxCpltCallback -> AudioDriver_NotifyInputReady
HAL_I2S_RxCpltCallback(m) ==
    [m EXCEPT !.bufferReady = 1, !.captured = m.captured + 1]

\* HAL_I2S_TxCpltCallback -> AudioDriver_NotifyOutputComplete
HAL_I2S_TxCpltCallback(m) ==
    [m EXCEPT !.outputDone = m.outputDone + 1]

\* ProcessAudio without the test of the ready flag
ProcessAudioStep_NoPoll(pc, ready, done) ==
    CASE pc = "poll" -> "fetch"
      [] pc = "fetch" -> "process"
      [] pc = "process" -> IF done THEN "send" ELSE "process"
      [] pc = "send" -> "ui"
      [] OTHER -> pc

\* the order of ProcessAudio: test the flag, fetch, process, send
ProcessAudioStep(pc, ready, done) ==
    CASE pc = "poll" -> IF ready THEN "fetch" ELSE "ui"
      [] pc = "fetch" -> "process"
      [] pc = "process" -> IF done THEN "send" ELSE "process"
      [] pc = "send" -> "ui"
      [] OTHER -> pc

LoopInit ==
    /\ loopPc = "poll"
    /\ shared = [systemTick |-> 0, needsRefresh |-> 1, queued |-> 0, detected |-> 0,
              bufferReady |-> 0, captured |-> 0, outputDone |-> 0, setterCalls |-> 0]
    /\ observed = 0
    /\ inBlock = 0
    /\ procEntries = 0
    /\ outBlock = [id |-> 0, entries |-> 0]
    /\ handedOff = <<>>

\* interrupt: TIM2 or TIM3 period elapsed
TimerInterrupt(instance, detected) ==
    /\ instance = 2 => shared.systemTick < MaxTicks
    /\ instance = 3 => detected /\ shared.detected < MaxEvents
    /\ shared' = HAL_TIM_PeriodElapsedCallback(shared, instance, detected)
    /\ UNCHANGED <<loopPc, observed, inBlock, procEntries, outBlock, handedOff>>
    /\ UNCHANGED NotLoop

\* interrupt: input transfer complete
RxInterrupt ==
    /\ shared.captured < MaxBlocks
    /\ shared' = HAL_I2S_RxCpltCallback(shared)
    /\ UNCHANGED <<loopPc, observed, inBlock, procEntries, outBlock, handedOff>>
    /\ UNCHANGED NotLoop

\* interrupt: output transfer complete
TxInterrupt ==
    /\ shared.outputDone < Len(handedOff)
    /\ shared' = HAL_I2S_TxCpltCallback(shared)
    /\ UNCHANGED <<loopPc, observed, inBlock, procEntries, outBlock, handedOff>>
    /\ UNCHANGED NotLoop

\* ProcessAudio: if (AudioDriver_IsBufferReady())
PollReady ==
    /\ loopPc = "poll"
    /\ loopPc' = ProcessAudioStep(loopPc, shared.bufferReady = 1, FALSE)
    /\ observed' = IF shared.bufferReady = 1 THEN shared.captured ELSE 0
    /\ UNCHANGED <<shared, inBlock, procEntries, outBlock, handedOff>>
    /\ UNCHANGED NotLoop

\* ProcessAudio: AudioDriver_GetSamples(&inputBuffer)
GetSamples ==
    /\ loopPc = "fetch"
    /\ loopPc' = ProcessAudioStep(loopPc, TRUE, FALSE)
    /\ inBlock' = shared.captured
    /\ shared' = [shared EXCEPT !.bufferReady = 0]
    /\ procEntries' = 0
    /\ UNCHANGED <<observed, outBlock, handedOff>>
    /\ UNCHANGED NotLoop

\* ProcessAudio: AudioProcessing_Process, one entry of the block per step
ProcessEntry ==
    /\ loopPc = "process"
    /\ procEntries' = procEntries + 1
    /\ outBlock' = [id |-> inBlock, entries |-> procEntries + 1]
    /\ loopPc' = ProcessAudioStep(loopPc, TRUE, procEntries + 1 = AUDIO_BUFFER_SIZE)
    /\ UNCHANGED <<shared, observed, inBlock, handedOff>>
    /\ UNCHANGED NotLoop

\* ProcessAudio: AudioDriver_SendSamples(&outputBuffer)
SendSamples ==
    /\ loopPc = "send"
    /\ handedOff' = Append(handedOff, outBlock)
    /\ observed' = 0
    /\ loopPc' = ProcessAudioStep(loopPc, TRUE, TRUE)
    /\ UNCHANGED <<shared, inBlock, procEntries, outBlock>>
    /\ UNCHANGED NotLoop

\* HandleUserInterface: one queued event handled, its handler calling a
\* parameter setter or not; then UI_Update
HandleUserInterface(sets) ==
    /\ loopPc = "ui"
    /\ shared' = IF shared.queued > 0
              THEN [shared EXCEPT !.queued = shared.queued - 1,
                               !.setterCalls = IF sets THEN shared.setterCalls + 1
                                               ELSE shared.setterCalls,
                               !.needsRefresh = 0]
              ELSE [shared EXCEPT !.needsRefresh = 0]
    /\ loopPc' = "state"
    /\ UNCHANGED <<observed, inBlock, procEntries, outBlock, handedOff>>
    /\ UNCHANGED NotLoop

\* switch (systemState): nothing in the sources sets it away from normal
StateSwitch ==
    /\ loopPc = "state"
    /\ loopPc' = "poll"
    /\ UNCHANGED <<shared, observed, inBlock, procEntries, outBlock, handedOff>>
    /\ UNCHANGED NotLoop

LoopNext ==
    \/ \E instance \in {2, 3}, detected \in BOOLEAN : TimerInterrupt(instance, detected)
    \/ RxInterrupt
    \/ TxInterrupt
    \/ PollReady
    \/ GetSamples
    \/ ProcessEntry
    \/ SendSamples
    \/ \E sets \in BOOLEAN : HandleUserInterface(sets)
    \/ StateSwitch

\* C14: while a block-processing call is in progress no step, interrupt
\* handlers included, calls a setter of the DSP modules: the handlers change
\* only tick, refresh flag, event queue and the driver's flags.
C14_NoWriterDuringBlock ==
    [][loopPc = "process" => shared'.setterCalls = shared.setterCalls]_vars

\* in the middle of a block, after an earlier setter call from the main loop,
\* with an event queued and the next block already signalled by interrupts
C14_Witness ==
    /\ loopPc = "process"
    /\ procEntries = 1
    /\ shared.setterCalls > 0
    /\ shared.queued > 0
    /\ shared.bufferReady = 1
    /\ shared.systemTick > 0

\* C15: processing starts only from the fetch that follows a poll which saw
\* the ready flag, and a block is handed off only when all its entries have
\* been processed, as the block that was fetched.
C15_BlockOrder ==
    [][/\ (loopPc' = "process" /\ loopPc # "process") =>
              (loopPc = "fetch" /\ observed >= 1 /\ inBlock' >= observed /\ procEntries' = 0)
       /\ (handedOff' # handedOff) =>
              /\ loopPc = "send"
              /\ outBlock = [id |-> inBlock, entries |-> AUDIO_BUFFER_SIZE]
              /\ handedOff' = Append(handedOff, outBlock)
      ]_vars

\* two blocks handed off, the second fetched after its flag was raised while
\* the first was being processed
C15_Witness ==
    /\ Len(handedOff) = 2
    /\ handedOff[1].id = 1
    /\ handedOff[2].id = 2
    /\ handedOff[2].entries = AUDIO_BUFFER_SIZE

----------------------------------------------------------------------------
(* Dynamics (dynamics.c): compressor and limiter                           *)
(* Samples and linear gains are fixed point with 1.0f = FP, levels and     *)
(* thresholds are in units of 1/DBU dB, times in ms.                       *)

DBU == 1000                      \* 1 dB

\* expf(-z) and expf(z) for 0 <= z < 1, z fixed point
ExpNeg(z) ==
    LET z2 == Mul(z, z)
        z3 == Mul(z2, z)
        z4 == Mul(z3, z)
        z5 == Mul(z4, z)
    IN  FP - z + TruncDiv(z2, 2) - TruncDiv(z3, 6) + TruncDiv(z4, 24) - TruncDiv(z5, 120)

ExpPos(z) ==
    LET z2 == Mul(z, z)
        z3 == Mul(z2, z)
        z4 == Mul(z3, z)
        z5 == Mul(z4, z)
    IN  FP + z + TruncDiv(z2, 2) + TruncDiv(z3, 6) + TruncDiv(z4, 24) + TruncDiv(z5, 120)

\* DB_TO_LINEAR of dynamics.c, powf(10.0f, x / 20.0f): 6.021 dB are a factor
\* of two, the rest is exp(x * ln(10) / 20)
Dynamics_DBToLinear(dB) ==
    LET n == Abs(dB)
        q == n \div 6021
        z == TruncDiv((n % 6021) * 115129, 100000)
    IN  IF dB <= 0 THEN ExpNeg(z) \div (2 ^ q) ELSE ExpPos(z) * (2 ^ q)

\* LINEAR_TO_DB of dynamics.c, 20.0f * log10f(MAX(x, 0.00001f)), at the
\* sample magnitudes the inputs carry
Dynamics_LinearToDB(linear) ==
    CASE linear = 0         -> -100 * DBU
      [] linear = FP \div 100 -> -40 * DBU
      [] linear = FP        -> 0

\* MS_TO_COEF
MS_TO_COEF(time_ms, sample_rate) ==
    IF time_ms <= 0 THEN 0 ELSE ExpNeg((FP * 1000) \div (time_ms * sample_rate))

Dynamics_DetectPeak(sample, prevSample) == Max(sample, prevSample)

\* one pole smoothing: coef * old + (1.0f - coef) * target
Smooth(coef, old, target) == Mul(coef, old) + Mul(FP - coef, target)

ResetDynState == [env |-> 0, gainReduction |-> FP, prevSample |-> 0]

CompressorDefaultParams ==
    [threshold |-> -20 * DBU, ratio |-> 4 * FP, attack |-> 5, release |-> 100,
     makeupGain |-> 0, enabled |-> 1, autoMakeup |-> 0, kneeWidth |-> 3 * DBU]

LimiterDefaultParams ==
    [threshold |-> -3 * DBU, release |-> 50, enabled |-> 1, lookAhead |-> 0]

\* Dynamics_CompressorSetParams on the instance
CompressorSetParams(comp, params) ==
    [comp EXCEPT !.params = params,
                 !.attackCoef = MS_TO_COEF(params.attack, comp.sampleRate),
                 !.releaseCoef = MS_TO_COEF(params.release, comp.sampleRate)]

\* Dynamics_LimiterSetParams on the instance
LimiterSetParams(lim, params) ==
    [lim EXCEPT !.params = params,
                !.releaseCoef = MS_TO_COEF(params.release, lim.sampleRate)]

calculateCompressorGain(comp, inputLevel) ==
    LET threshold == comp.params.threshold
        ratio == comp.params.ratio
        kneeWidth == comp.params.kneeWidth
        halfKneeWidth == TruncDiv(kneeWidth, 2)
        kneeInput == inputLevel - threshold + halfKneeWidth
        \* 1.0f + ((ratio - 1.0f) * kneeInput * kneeInput) / (2.0f * kneeWidth), in dB
        kneeRatio == FP + TruncDiv(TruncDiv(((ratio - FP) \div 100) * kneeInput * kneeInput,
                                            2 * kneeWidth) * 100, DBU)
        gain == IF kneeWidth > 0 /\ inputLevel > threshold - halfKneeWidth
                                 /\ inputLevel < threshold + halfKneeWidth
                THEN Dynamics_DBToLinear(TruncDiv((threshold - inputLevel) * FP, kneeRatio))
                ELSE IF inputLevel > threshold
                     THEN Dynamics_DBToLinear(threshold - inputLevel
                                              + TruncDiv((inputLevel - threshold) * FP, ratio))
                     ELSE FP
    IN  Max(gain, FP \div 1000)

Dynamics_CompressorProcessSample(comp, sample) ==
    IF comp.params.enabled = 0
    THEN [inst |-> comp, out |-> sample]
    ELSE LET inputAbs == Abs(sample)
             peakValue == Dynamics_DetectPeak(inputAbs, comp.state.prevSample)
             inputLevel == Dynamics_LinearToDB(peakValue)
             env == IF inputLevel > comp.state.env
                    THEN Smooth(comp.attackCoef, comp.state.env, inputLevel)
                    ELSE Smooth(comp.releaseCoef, comp.state.env, inputLevel)
             gain == calculateCompressorGain(comp, env)
             gainReduction == IF gain < comp.state.gainReduction
                              THEN Smooth(comp.attackCoef, comp.state.gainReduction, gain)
                              ELSE Smooth(comp.releaseCoef, comp.state.gainReduction, gain)
         IN  [inst |-> [comp EXCEPT !.state = [env |-> env, gainReduction |-> gainReduction,
                                               prevSample |-> inputAbs]],
              out |-> Mul(sample, gainReduction)]

Dynamics_LimiterProcessSample(lim, sample) ==
    IF lim.params.enabled = 0
    THEN [inst |-> lim, out |-> sample]
    ELSE LET inputAbs == Abs(sample)
             peakValue == Dynamics_DetectPeak(inputAbs, lim.state.prevSample)
             inputLevel == Dynamics_LinearToDB(peakValue)
             env == IF inputLevel > lim.state.env
                    THEN inputLevel
                    ELSE Smooth(lim.releaseCoef, lim.state.env, inputLevel)
             gainReduction == IF env > lim.params.threshold
                              THEN lim.params.threshold - env ELSE 0
             targetGain == IF gainReduction > 0 THEN FP
                           ELSE Dynamics_DBToLinear(gainReduction)
             newGain == IF targetGain < lim.state.gainReduction
                        THEN targetGain
                        ELSE Smooth(lim.releaseCoef, lim.state.gainReduction, targetGain)
         IN  [inst |-> [lim EXCEPT !.state = [env |-> env, gainReduction |-> newGain,
                                              prevSample |-> inputAbs]],
              out |-> Mul(sample, newGain)]

\* a disabled stage that leaves the output buffer alone in every case
CopyThrough_Never(input, output, inPlace) == output

\* the disabled branch: copy input to output if they are different buffers
CopyThrough(input, output, inPlace) == IF inPlace THEN output ELSE input

\* the sample loop of Dynamics_CompressorProcess
RECURSIVE CompressorLoop(_, _, _, _)
CompressorLoop(comp, input, makeupGainLinear, out) ==
    IF input = <<>>
    THEN [inst |-> comp, out |-> out]
    ELSE LET r == Dynamics_CompressorProcessSample(comp, Head(input))
         IN  CompressorLoop(r.inst, Tail(input), makeupGainLinear,
                            Append(out, Mul(r.out, makeupGainLinear)))

\* the sample loop of Dynamics_LimiterProcess
RECURSIVE LimiterLoop(_, _, _)
LimiterLoop(lim, input, out) ==
    IF input = <<>>
    THEN [inst |-> lim, out |-> out]
    ELSE LET r == Dynamics_LimiterProcessSample(lim, Head(input))
         IN  LimiterLoop(r.inst, Tail(input), Append(out, r.out))

\* Dynamics_CompressorProcess: the instance and what the output buffer holds
\* afterwards; in place the output buffer is the input buffer
CompressorProcess(comp, input, output, inPlace) ==
    IF comp.params.enabled = 0
    THEN [inst |-> comp, out |-> CopyThrough(input, IF inPlace THEN input ELSE output, inPlace)]
    ELSE CompressorLoop(comp, input, Dynamics_DBToLinear(comp.params.makeupGain), <<>>)

\* Dynamics_LimiterProcess
LimiterProcess(lim, input, output, inPlace) ==
    IF lim.params.enabled = 0
    THEN [inst |-> lim, out |-> CopyThrough(input, IF inPlace THEN input ELSE output, inPlace)]
    ELSE LimiterLoop(lim, input, <<>>)

\* C23: after the sample rate was changed through Crossover_SetSampleRate all
\* filter coefficients are the ones designed for the new rate, and so are the
\* attack and release coefficients of compressor and limiter.
C23_RateRecomputed ==
    xoverOp = "Crossover_SetSampleRate" =>
        /\ \A c \in Chains, i \in Stages :
               Coefs(filters[c][i]) =
                   Coefs(CalculateFilterCoefficients(crossoverFilters, filters)[c][i])
        /\ compressor.attackCoef =
               MS_TO_COEF(compressor.params.attack, crossoverFilters.sampleRate)
        /\ compressor.releaseCoef =
               MS_TO_COEF(compressor.params.release, crossoverFilters.sampleRate)
        /\ limiter.releaseCoef =
               MS_TO_COEF(limiter.params.release, crossoverFilters.sampleRate)

----------------------------------------------------------------------------
(* Dynamics: operations                                                    *)

MaxDynSteps == 3                 \* dynamics operations in one run
DynBlock == 2                    \* samples per block

QuietLevel == FP \div 100        \* 0.01f, 40 dB under full scale
QuietBlock == [i \in 1 .. DynBlock |-> IF i % 2 = 1 THEN QuietLevel ELSE -QuietLevel]
LoudBlock == [i \in 1 .. DynBlock |-> IF i % 2 = 1 THEN FP ELSE -FP]
DynBlocks == {QuietBlock, LoudBlock}
IsQuiet(input) == \A i \in 1 .. Len(input) : Abs(input[i]) = QuietLevel

CompressorParamsSet ==
    {CompressorDefaultParams,
     [CompressorDefaultParams EXCEPT !.enabled = 0],
     [CompressorDefaultParams EXCEPT !.kneeWidth = 0, !.threshold = -10 * DBU]}
LimiterParamsSet ==
    {LimiterDefaultParams, [LimiterDefaultParams EXCEPT !.enabled = 0]}

\* Dynamics_CompressorInit and Dynamics_LimiterInit at the system sample rate
DynamicsInit ==
    /\ compressor = CompressorSetParams(
           [params |-> CompressorDefaultParams, state |-> ResetDynState,
            attackCoef |-> 0, releaseCoef |-> 0, sampleRate |-> DEFAULT_SAMPLE_RATE],
           CompressorDefaultParams)
    /\ limiter = LimiterSetParams(
           [params |-> LimiterDefaultParams, state |-> ResetDynState,
            releaseCoef |-> 0, sampleRate |-> DEFAULT_SAMPLE_RATE],
           LimiterDefaultParams)
    /\ dynInput = [i \in 1 .. DynBlock |-> 0]
    /\ dynBufIn = [i \in 1 .. DynBlock |-> 0]
    /\ dynBufOut = [i \in 1 .. DynBlock |-> 0]
    /\ dynInPlace = FALSE
    /\ dynQuiet = [comp |-> TRUE, lim |-> TRUE]
    /\ dynOp = "Dynamics_Init"
    /\ dynSteps = 0

Dynamics_CompressorSetParams(params) ==
    /\ dynSteps < MaxDynSteps
    /\ compressor' = CompressorSetParams(compressor, params)
    /\ dynOp' = "Dynamics_CompressorSetParams"
    /\ dynSteps' = dynSteps + 1
    /\ UNCHANGED <<limiter, dynInput, dynBufIn, dynBufOut, dynInPlace, dynQuiet>>
    /\ UNCHANGED NotDynamics

Dynamics_LimiterSetParams(params) ==
    /\ dynSteps < MaxDynSteps
    /\ limiter' = LimiterSetParams(limiter, params)
    /\ dynOp' = "Dynamics_LimiterSetParams"
    /\ dynSteps' = dynSteps + 1
    /\ UNCHANGED <<compressor, dynInput, dynBufIn, dynBufOut, dynInPlace, dynQuiet>>
    /\ UNCHANGED NotDynamics

Dynamics_CompressorProcess(input, inPlace) ==
    /\ dynSteps < MaxDynSteps
    /\ LET r == CompressorProcess(compressor, input, dynBufOut, inPlace)
       IN  /\ compressor' = r.inst
           /\ dynBufIn' = IF inPlace THEN r.out ELSE input
           /\ dynBufOut' = IF inPlace THEN dynBufOut ELSE r.out
    /\ dynInput' = input
    /\ dynInPlace' = inPlace
    /\ dynQuiet' = IF compressor.params.enabled = 0 THEN dynQuiet
                   ELSE [dynQuiet EXCEPT !.comp = dynQuiet.comp /\ IsQuiet(input)]
    /\ dynOp' = "Dynamics_CompressorProcess"
    /\ dynSteps' = dynSteps + 1
    /\ UNCHANGED limiter
    /\ UNCHANGED NotDynamics

Dynamics_LimiterProcess(input, inPlace) ==
    /\ dynSteps < MaxDynSteps
    /\ LET r == LimiterProcess(limiter, input, dynBufOut, inPlace)
       IN  /\ limiter' = r.inst
           /\ dynBufIn' = IF inPlace THEN r.out ELSE input
           /\ dynBufOut' = IF inPlace THEN dynBufOut ELSE r.out
    /\ dynInput' = input
    /\ dynInPlace' = inPlace
    /\ dynQuiet' = IF limiter.params.enabled = 0 THEN dynQuiet
                   ELSE [dynQuiet EXCEPT !.lim = dynQuiet.lim /\ IsQuiet(input)]
    /\ dynOp' = "Dynamics_LimiterProcess"
    /\ dynSteps' = dynSteps + 1
    /\ UNCHANGED compressor
    /\ UNCHANGED NotDynamics

Dynamics_CompressorReset ==
    /\ dynSteps < MaxDynSteps
    /\ compressor' = [compressor EXCEPT !.state = ResetDynState]
    /\ dynQuiet' = [dynQuiet EXCEPT !.comp = TRUE]
    /\ dynOp' = "Dynamics_CompressorReset"
    /\ dynSteps' = dynSteps + 1
    /\ UNCHANGED <<limiter, dynInput, dynBufIn, dynBufOut, dynInPlace>>
    /\ UNCHANGED NotDynamics

Dynamics_LimiterReset ==
    /\ dynSteps < MaxDynSteps
    /\ limiter' = [limiter EXCEPT !.state = ResetDynState]
    /\ dynQuiet' = [dynQuiet EXCEPT !.lim = TRUE]
    /\ dynOp' = "Dynamics_LimiterReset"
    /\ dynSteps' = dynSteps + 1
    /\ UNCHANGED <<compressor, dynInput, dynBufIn, dynBufOut, dynInPlace>>
    /\ UNCHANGED NotDynamics

DynamicsNext ==
    \/ \E params \in CompressorParamsSet : Dynamics_CompressorSetParams(params)
    \/ \E params \in LimiterParamsSet : Dynamics_LimiterSetParams(params)
    \/ \E input \in DynBlocks, inPlace \in BOOLEAN : Dynamics_CompressorProcess(input, inPlace)
    \/ \E input \in DynBlocks, inPlace \in BOOLEAN : Dynamics_LimiterProcess(input, inPlace)
    \/ Dynamics_CompressorReset
    \/ Dynamics_LimiterReset

----------------------------------------------------------------------------
(* Dynamics: properties                                                    *)

\* what the caller reads as the output of the last call
DynOutput == IF dynInPlace THEN dynBufIn ELSE dynBufOut

\* C19: after a call on a disabled compressor or limiter every output sample
\* equals the corresponding input sample, in place and with separate buffers.
C19_DisabledPassThrough ==
    /\ (dynOp = "Dynamics_CompressorProcess" /\ compressor.params.enabled = 0) =>
           DynOutput = dynInput
    /\ (dynOp = "Dynamics_LimiterProcess" /\ limiter.params.enabled = 0) =>
           DynOutput = dynInput

\* a disabled limiter has copied a loud block into a separate output buffer
C19_Witness ==
    /\ dynOp = "Dynamics_LimiterProcess"
    /\ limiter.params.enabled = 0
    /\ ~dynInPlace
    /\ dynInput = LoudBlock
    /\ dynBufOut = LoudBlock

\* C20: an enabled compressor or limiter that has seen nothing but a constant
\* level well under its threshold holds a gain reduction of exactly 1.0 and
\* puts out its input unchanged.
C20_TransparentBelowThreshold ==
    /\ (dynOp = "Dynamics_CompressorProcess" /\ compressor.params.enabled = 1
            /\ dynQuiet.comp) =>
           /\ compressor.state.gainReduction = FP
           /\ DynOutput = dynInput
    /\ (dynOp = "Dynamics_LimiterProcess" /\ limiter.params.enabled = 1
            /\ dynQuiet.lim) =>
           /\ limiter.state.gainReduction = FP
           /\ DynOutput = dynInput

----------------------------------------------------------------------------
(* Button handler (button_handler.c)                                       *)
(* Times are scaled down, keeping debounce < hold; one button is sampled.  *)

BUTTON_STATE_RELEASED == 0
BUTTON_STATE_PRESSED == 1
BUTTON_STATE_HELD == 2
BUTTON_STATE_DOUBLE_CLICKED == 3

BUTTON_DEBOUNCE_TIME == 2        \* scaled down from 20
BUTTON_HOLD_TIME == 3            \* scaled down from 1000
BUTTON_DOUBLE_CLICK_TIME == 2    \* scaled down from 300
BUTTON_QUEUE_SIZE == 2           \* scaled down from 8

ButtonIds == {0}                 \* BUTTON_MENU
ButtonSlots == 0 .. (BUTTON_QUEUE_SIZE - 1)
NoButtonEvent == [button |-> 0, state |-> 0, holdTime |-> 0, id |-> 0]

IS_QUEUE_EMPTY(q) == q.count = 0
IS_QUEUE_FULL(q) == q.count >= BUTTON_QUEUE_SIZE

\* a push that keeps the queue as it is when it is full, losing the new event
PushEvent_DropNewest(st, button, state, holdTime) ==
    LET q == st.queue
        ev == [button |-> button, state |-> state, holdTime |-> holdTime,
               id |-> Len(st.log) + 1]
    IN  [st EXCEPT !.queue = IF IS_QUEUE_FULL(q) THEN q
                             ELSE [q EXCEPT !.events[q.head] = ev,
                                            !.head = (q.head + 1) % BUTTON_QUEUE_SIZE,
                                            !.count = q.count + 1],
                   !.log = Append(st.log, [ev |-> ev, tick |-> st.tick])]

\* PushEvent on the handler's statics st = [buttons, queue, log, tick]; the id
\* numbers the pushes
PushEvent(st, button, state, holdTime) ==
    LET q == st.queue
        room == IF IS_QUEUE_FULL(q)
                THEN [q EXCEPT !.tail = (q.tail + 1) % BUTTON_QUEUE_SIZE,
                               !.count = q.count - 1]
                ELSE q
        ev == [button |-> button, state |-> state, holdTime |-> holdTime,
               id |-> Len(st.log) + 1]
    IN  [st EXCEPT !.queue = [room EXCEPT !.events[room.head] = ev,
                                          !.head = (room.head + 1) % BUTTON_QUEUE_SIZE,
                                          !.count = room.count + 1],
                   !.log = Append(st.log, [ev |-> ev, tick |-> st.tick])]

ProcessButtonState(st, b) ==
    IF st.buttons[b].stableState = 1
    THEN LET s1 == PushEvent([st EXCEPT !.buttons[b].pressTime = st.tick],
                             b, BUTTON_STATE_PRESSED, 0)
         IN  IF s1.buttons[b].clickCount = 1
                /\ s1.tick - s1.buttons[b].releaseTime <= BUTTON_DOUBLE_CLICK_TIME
             THEN PushEvent([s1 EXCEPT !.buttons[b].clickCount = 0],
                            b, BUTTON_STATE_DOUBLE_CLICKED, 0)
             ELSE s1
    ELSE LET holdTime == st.tick - st.buttons[b].pressTime
             s1 == [st EXCEPT !.buttons[b].releaseTime = st.tick]
         IN  IF s1.buttons[b].previousState # BUTTON_STATE_HELD
             THEN [PushEvent(s1, b, BUTTON_STATE_RELEASED, holdTime)
                      EXCEPT !.buttons[b].clickCount = 1]
             ELSE [s1 EXCEPT !.buttons[b].clickCount = 0]

\* a debounce counter that keeps its value over a sample equal to the stable state
DebounceCount_NoRestart(counter, differs) == IF differs THEN counter + 1 ELSE counter

\* the debounce counter after one sample
DebounceCount(counter, differs) == IF differs THEN counter + 1 ELSE 0

\* the loop body of ButtonHandler_Sample for button b, currentState read from the pin
SampleButton(st, b, currentState) ==
    LET differs == currentState # st.buttons[b].stableState
        counter == DebounceCount(st.buttons[b].debounceCounter, differs)
        s1 == IF differs /\ counter >= BUTTON_DEBOUNCE_TIME
              THEN ProcessButtonState(
                       [st EXCEPT !.buttons[b].previousState = st.buttons[b].stableState,
                                  !.buttons[b].stableState = currentState,
                                  !.buttons[b].debounceCounter = 0], b)
              ELSE [st EXCEPT !.buttons[b].debounceCounter = counter]
        s2 == IF s1.buttons[b].stableState # 0
                 /\ s1.tick - s1.buttons[b].pressTime >= BUTTON_HOLD_TIME
                 /\ s1.buttons[b].previousState # BUTTON_STATE_HELD
              THEN PushEvent([s1 EXCEPT !.buttons[b].previousState = BUTTON_STATE_HELD],
                             b, BUTTON_STATE_HELD, s1.tick - s1.buttons[b].pressTime)
              ELSE s1
    IN  IF s2.buttons[b].clickCount = 1
           /\ s2.tick - s2.buttons[b].releaseTime > BUTTON_DOUBLE_CLICK_TIME
        THEN [s2 EXCEPT !.buttons[b].clickCount = 0]
        ELSE s2

\* the button loop of ButtonHandler_Sample, in ascending order of the ids
RECURSIVE SampleButtons(_, _, _)
SampleButtons(st, todo, pins) ==
    IF todo = {}
    THEN st
    ELSE LET b == CHOOSE x \in todo : \A y \in todo : x <= y
         IN  SampleButtons(SampleButton(st, b, pins[b]), todo \ {b}, pins)

\* what ButtonHandler_GetEvent does to a queue that is not empty
QueueGet(q) ==
    [queue |-> [q EXCEPT !.tail = (q.tail + 1) % BUTTON_QUEUE_SIZE, !.count = q.count - 1],
     event |-> q.events[q.tail]]

----------------------------------------------------------------------------
(* Button handler: operations                                              *)

MaxButtonTicks == 8              \* samples in one run

PinLevels == [ButtonIds -> {0, 1}]
NoLocal == [idx |-> 0, event |-> NoButtonEvent, count |-> 0, hit |-> FALSE]

\* the zero-initialised statics, before ButtonHandler_Init
ButtonStatics ==
    /\ buttons = [b \in ButtonIds |->
                     [debounceCounter |-> 0, stableState |-> 0, previousState |-> 0,
                      pressTime |-> 0, releaseTime |-> 0, clickCount |-> 0]]
    /\ buttonTick = 0
    /\ buttonQueue = [events |-> [k \in ButtonSlots |-> NoButtonEvent],
                      head |-> 0, tail |-> 0, count |-> 0]
    /\ btnReady = FALSE
    /\ btnPc = "idle"
    /\ btnLocal = NoLocal
    /\ btnLog = <<>>
    /\ btnDelivered = <<>>
    /\ btnRun = [b \in ButtonIds |-> 0]
    /\ btnPressedFor = [b \in ButtonIds |-> 0]

\* ButtonHandler_Init: the stable state starts as the pin reads
ButtonHandler_Init(pins) ==
    /\ ~btnReady
    /\ btnReady' = TRUE
    /\ buttons' = [b \in ButtonIds |->
                      [debounceCounter |-> 0, stableState |-> pins[b],
                       previousState |-> pins[b],
                       pressTime |-> 0, releaseTime |-> 0, clickCount |-> 0]]
    /\ buttonQueue' = [buttonQueue EXCEPT !.head = 0, !.tail = 0, !.count = 0]
    /\ buttonTick' = 0
    /\ UNCHANGED <<btnPc, btnLocal, btnLog, btnDelivered, btnRun, btnPressedFor>>
    /\ UNCHANGED NotButton

\* ButtonHandler_Sample, called from the TIM3 interrupt: all it does to the
\* handler's statics, the interrupted call's registers left to the caller
ButtonSampleWithin(pins, maxTicks) ==
    /\ btnReady
    /\ buttonTick < maxTicks
    /\ LET st == SampleButtons([buttons |-> buttons, queue |-> buttonQueue,
                                log |-> btnLog, tick |-> buttonTick + 1],
                               ButtonIds, pins)
       IN  /\ buttons' = st.buttons
           /\ buttonQueue' = st.queue
           /\ btnLog' = st.log
           /\ btnRun' = [b \in ButtonIds |->
                            IF pins[b] = buttons[b].stableState
                               \/ st.buttons[b].stableState # buttons[b].stableState
                            THEN 0 ELSE btnRun[b] + 1]
           /\ btnPressedFor' = [b \in ButtonIds |->
                                   IF st.buttons[b].stableState # buttons[b].stableState
                                      \/ st.buttons[b].stableState = 0
                                   THEN 0 ELSE btnPressedFor[b] + 1]
    /\ buttonTick' = buttonTick + 1
    /\ UNCHANGED <<btnReady, btnPc, btnDelivered>>

SampleEffect(pins) == ButtonSampleWithin(pins, MaxButtonTicks) /\ UNCHANGED NotButton

\* the sampling interrupt while the main loop is between two calls
ButtonHandler_Sample(pins) ==
    /\ btnPc = "idle"
    /\ SampleEffect(pins)
    /\ UNCHANGED btnLocal

\* ButtonHandler_GetEvent run without interruption; on an empty queue it
\* returns 0 and changes nothing
ButtonHandler_GetEvent ==
    /\ btnReady
    /\ btnPc = "idle"
    /\ ~IS_QUEUE_EMPTY(buttonQueue)
    /\ LET r == QueueGet(buttonQueue)
       IN  /\ buttonQueue' = r.queue
           /\ btnDelivered' = Append(btnDelivered, r.event)
    /\ UNCHANGED <<buttons, buttonTick, btnReady, btnPc, btnLocal, btnLog, btnRun,
                   btnPressedFor>>
    /\ UNCHANGED NotButton

\* ButtonHandler_ClearEvents run without interruption
ButtonHandler_ClearEvents ==
    /\ btnReady
    /\ btnPc = "idle"
    /\ buttonQueue.count # 0
    /\ buttonQueue' = [buttonQueue EXCEPT !.head = 0, !.tail = 0, !.count = 0]
    /\ UNCHANGED <<buttons, buttonTick, btnReady, btnPc, btnLocal, btnLog, btnDelivered,
                   btnRun, btnPressedFor>>
    /\ UNCHANGED NotButton

ButtonNext ==
    \/ \E pins \in PinLevels : ButtonHandler_Init(pins)
    \/ \E pins \in PinLevels : ButtonHandler_Sample(pins)
    \/ ButtonHandler_GetEvent
    \/ ButtonHandler_ClearEvents

----------------------------------------------------------------------------
(* Button handler: the main loop's calls instruction by instruction, the   *)
(* sampling interrupt able to run between any two of them. The interrupt   *)
(* period (1 ms) is far longer than a call, so at most one interrupt falls *)
(* inside one call.                                                        *)

\* the TIM3 interrupt arriving inside a call of the main loop
SampleInterrupt(pins) ==
    /\ btnPc # "idle"
    /\ ~btnLocal.hit
    /\ SampleEffect(pins)
    /\ btnLocal' = [btnLocal EXCEPT !.hit = TRUE]

ButtonFrame == UNCHANGED <<buttons, buttonTick, btnReady, btnLog, btnRun, btnPressedFor>>

\* if (IS_QUEUE_EMPTY(eventQueue)) return 0;
GetEvent_Check ==
    /\ btnReady /\ btnPc = "idle"
    /\ ~IS_QUEUE_EMPTY(buttonQueue)
    /\ btnPc' = "get_index"
    /\ btnLocal' = NoLocal
    /\ UNCHANGED <<buttonQueue, btnDelivered>>
    /\ ButtonFrame /\ UNCHANGED NotButton

\* the load of eventQueue.tail for the copy
GetEvent_Index ==
    /\ btnPc = "get_index"
    /\ btnLocal' = [btnLocal EXCEPT !.idx = buttonQueue.tail]
    /\ btnPc' = "get_copy"
    /\ UNCHANGED <<buttonQueue, btnDelivered>>
    /\ ButtonFrame /\ UNCHANGED NotButton

\* *event = eventQueue.events[tail], first words: button and state
GetEvent_Copy ==
    /\ btnPc = "get_copy"
    /\ btnLocal' = [btnLocal EXCEPT
                       !.event = [buttonQueue.events[btnLocal.idx]
                                     EXCEPT !.holdTime = btnLocal.event.holdTime]]
    /\ btnPc' = "get_copy2"
    /\ UNCHANGED <<buttonQueue, btnDelivered>>
    /\ ButtonFrame /\ UNCHANGED NotButton

\* *event = eventQueue.events[tail], last word: holdTime
GetEvent_Copy2 ==
    /\ btnPc = "get_copy2"
    /\ btnLocal' = [btnLocal EXCEPT
                       !.event.holdTime = buttonQueue.events[btnLocal.idx].holdTime]
    /\ btnPc' = "get_tail"
    /\ UNCHANGED <<buttonQueue, btnDelivered>>
    /\ ButtonFrame /\ UNCHANGED NotButton

\* eventQueue.tail = (eventQueue.tail + 1) % BUTTON_QUEUE_SIZE; the queue is
\* not volatile, so the build may reuse the tail it loaded or load it again
GetEvent_Tail(reuse) ==
    /\ btnPc = "get_tail"
    /\ buttonQueue' = [buttonQueue EXCEPT
           !.tail = ((IF reuse THEN btnLocal.idx ELSE buttonQueue.tail) + 1)
                        % BUTTON_QUEUE_SIZE]
    /\ btnPc' = "get_count"
    /\ UNCHANGED <<btnLocal, btnDelivered>>
    /\ ButtonFrame /\ UNCHANGED NotButton

\* eventQueue.count--: the load
GetEvent_Count ==
    /\ btnPc = "get_count"
    /\ btnLocal' = [btnLocal EXCEPT !.count = buttonQueue.count]
    /\ btnPc' = "get_store"
    /\ UNCHANGED <<buttonQueue, btnDelivered>>
    /\ ButtonFrame /\ UNCHANGED NotButton

\* eventQueue.count--: the store (uint8_t); return 1
GetEvent_Store ==
    /\ btnPc = "get_store"
    /\ buttonQueue' = [buttonQueue EXCEPT !.count = (btnLocal.count - 1) % 256]
    /\ btnDelivered' = Append(btnDelivered, btnLocal.event)
    /\ btnPc' = "idle"
    /\ UNCHANGED btnLocal
    /\ ButtonFrame /\ UNCHANGED NotButton

\* ButtonHandler_ClearEvents: eventQueue.head = 0;
ClearEvents_Head ==
    /\ btnReady /\ btnPc = "idle"
    /\ buttonQueue.count # 0
    /\ buttonQueue' = [buttonQueue EXCEPT !.head = 0]
    /\ btnLocal' = NoLocal
    /\ btnPc' = "clr_tail"
    /\ UNCHANGED btnDelivered
    /\ ButtonFrame /\ UNCHANGED NotButton

\* eventQueue.tail = 0;
ClearEvents_Tail ==
    /\ btnPc = "clr_tail"
    /\ buttonQueue' = [buttonQueue EXCEPT !.tail = 0]
    /\ btnPc' = "clr_count"
    /\ UNCHANGED <<btnLocal, btnDelivered>>
    /\ ButtonFrame /\ UNCHANGED NotButton

\* eventQueue.count = 0;
ClearEvents_Count ==
    /\ btnPc = "clr_count"
    /\ buttonQueue' = [buttonQueue EXCEPT !.count = 0]
    /\ btnPc' = "idle"
    /\ UNCHANGED <<btnLocal, btnDelivered>>
    /\ ButtonFrame /\ UNCHANGED NotButton

ButtonRaceNext ==
    \/ \E pins \in PinLevels : ButtonHandler_Init(pins)
    \/ \E pins \in PinLevels : ButtonHandler_Sample(pins)
    \/ \E pins \in PinLevels : SampleInterrupt(pins)
    \/ GetEvent_Check
    \/ GetEvent_Index
    \/ GetEvent_Copy
    \/ GetEvent_Copy2
    \/ \E reuse \in BOOLEAN : GetEvent_Tail(reuse)
    \/ GetEvent_Count
    \/ GetEvent_Store
    \/ ClearEvents_Head
    \/ ClearEvents_Tail
    \/ ClearEvents_Count

----------------------------------------------------------------------------
(* Button handler: properties                                              *)

\* the states of the events pushed for button b, oldest first
RECURSIVE StatesOf(_, _)
StatesOf(log, b) ==
    IF log = <<>> THEN <<>>
    ELSE IF Head(log).ev.button = b
         THEN <<Head(log).ev.state>> \o StatesOf(Tail(log), b)
         ELSE StatesOf(Tail(log), b)

\* the events pushed for button b since its last PRESSED event (all of them
\* if there is none), and whether a PRESSED event opens them
RECURSIVE SincePress(_)
SincePress(states) ==
    IF states = <<>> THEN [opened |-> FALSE, states |-> <<>>]
    ELSE LET last == states[Len(states)]
             rest == SubSeq(states, 1, Len(states) - 1)
         IN  IF last = BUTTON_STATE_PRESSED
             THEN [opened |-> TRUE, states |-> <<>>]
             ELSE LET r == SincePress(rest)
                  IN  [opened |-> r.opened, states |-> Append(r.states, last)]

Occurs(states, v) == \E k \in 1 .. Len(states) : states[k] = v
NewStates(b) == SubSeq(StatesOf(btnLog', b), Len(StatesOf(btnLog, b)) + 1,
                       Len(StatesOf(btnLog', b)))
StateChanged(b) == buttons'[b].stableState # buttons[b].stableState
SampleStep == buttonTick' = buttonTick + 1

\* C27: when a button whose press has produced a HELD event is let go, the
\* release produces no RELEASED event and does not start double-click
\* detection.
C27_NoReleaseAfterHeld ==
    [][SampleStep =>
          \A b \in ButtonIds :
              (buttons[b].stableState = 1 /\ StateChanged(b)
                   /\ Occurs(SincePress(StatesOf(btnLog, b)).states, BUTTON_STATE_HELD)) =>
                  /\ ~Occurs(NewStates(b), BUTTON_STATE_RELEASED)
                  /\ buttons'[b].clickCount = 0
      ]_vars

\* C28: a HELD event follows a PRESSED event of the same press, is the only
\* HELD event of that press, and is generated only when the button has been
\* stably pressed for at least BUTTON_HOLD_TIME ticks.
C28_HeldAfterPressed ==
    [][SampleStep =>
          \A b \in ButtonIds :
              Occurs(NewStates(b), BUTTON_STATE_HELD) =>
                  LET before == SincePress(StatesOf(btnLog, b))
                  IN  /\ before.opened
                      /\ ~Occurs(before.states, BUTTON_STATE_HELD)
                      /\ ~Occurs(before.states, BUTTON_STATE_RELEASED)
                      /\ btnPressedFor'[b] >= BUTTON_HOLD_TIME
      ]_vars

\* C29: the stable state of a button changes, and a PRESSED or RELEASED event
\* is generated, only on a sample that completes BUTTON_DEBOUNCE_TIME
\* consecutive samples differing from the stable state, a sample equal to the
\* stable state restarting the count.
C29_Debounce ==
    [][SampleStep =>
          \A b \in ButtonIds :
              /\ StateChanged(b) => btnRun[b] + 1 >= BUTTON_DEBOUNCE_TIME
              /\ (Occurs(NewStates(b), BUTTON_STATE_PRESSED)
                      \/ Occurs(NewStates(b), BUTTON_STATE_RELEASED)) => StateChanged(b)
      ]_vars

\* a press accepted only after a bounce: more samples than the debounce time
\* had passed when the PRESSED event was pushed, and the release followed
C29_Witness ==
    /\ Len(btnLog) >= 2
    /\ btnLog[1].ev.state = BUTTON_STATE_PRESSED
    /\ btnLog[1].tick > BUTTON_DEBOUNCE_TIME
    /\ btnLog[2].ev.state = BUTTON_STATE_RELEASED

\* the queue's bookkeeping agrees: count is within the capacity and equals
\* the distance from tail to head (head = tail when empty or full)
QueueConsistent(q, size) ==
    /\ q.count \in 0 .. size
    /\ q.count % size = (q.head - q.tail) % size

NoDuplicates(seq) == \A i, j \in 1 .. Len(seq) : seq[i].id = seq[j].id => i = j

\* C25: whatever the interleaving of the sampling interrupt with
\* ButtonHandler_GetEvent and ButtonHandler_ClearEvents, between two calls of
\* the main loop the queue's count is within 0..BUTTON_QUEUE_SIZE and equals
\* the number of events between tail and head, and no event has been
\* delivered twice.
C25_ButtonQueueRaceFree ==
    btnPc = "idle" =>
        /\ QueueConsistent(buttonQueue, BUTTON_QUEUE_SIZE)
        /\ NoDuplicates(btnDelivered)

----------------------------------------------------------------------------
(* Rotary encoder (rotary_encoder.c); times and queue size scaled down      *)

ROTARY_DEBOUNCE_TIME == 1        \* scaled down from 5
ROTARY_LONGPRESS_TIME == 2       \* scaled down from 1000
ROTARY_QUEUE_SIZE == 2           \* scaled down from 8

RotaryModes == {"ROTARY_MODE_NORMAL", "ROTARY_MODE_FINE", "ROTARY_MODE_COARSE"}
RotarySlots == 0 .. (ROTARY_QUEUE_SIZE - 1)
NoRotaryEvent == [direction |-> 0, buttonPressed |-> 0, buttonReleased |-> 0,
                  buttonHeld |-> 0, id |-> 0]

\* EnqueueEvent on st = [rotary, queue, pushed]; the id numbers the events
EnqueueEvent(st, direction, buttonPressed, buttonReleased, buttonHeld) ==
    LET q == st.queue
        room == IF q.queueCount = ROTARY_QUEUE_SIZE
                THEN [q EXCEPT !.queueTail = (q.queueTail + 1) % ROTARY_QUEUE_SIZE,
                               !.queueCount = q.queueCount - 1]
                ELSE q
        ev == [direction |-> direction, buttonPressed |-> buttonPressed,
               buttonReleased |-> buttonReleased, buttonHeld |-> buttonHeld,
               id |-> st.pushed + 1]
    IN  [st EXCEPT !.queue = [room EXCEPT
                                 !.eventQueue[room.queueHead] = ev,
                                 !.queueHead = (room.queueHead + 1) % ROTARY_QUEUE_SIZE,
                                 !.queueCount = room.queueCount + 1],
                   !.pushed = st.pushed + 1]

\* ApplySensitivity: the statics after the call and whether the value it
\* returns is nonzero
ApplySensitivity(r, direction) ==
    CASE r.currentMode = "ROTARY_MODE_FINE" ->
             LET acc == r.accumulator + direction
             IN  IF acc >= 4 THEN [rotary |-> [r EXCEPT !.accumulator = acc - 4], pass |-> TRUE]
                 ELSE IF acc <= -4
                      THEN [rotary |-> [r EXCEPT !.accumulator = acc + 4], pass |-> TRUE]
                      ELSE [rotary |-> [r EXCEPT !.accumulator = acc], pass |-> FALSE]
      [] r.currentMode = "ROTARY_MODE_COARSE" -> [rotary |-> r, pass |-> direction * 5 # 0]
      [] OTHER ->
             IF r.counter + 1 >= 2
             THEN [rotary |-> [r EXCEPT !.counter = 0], pass |-> direction # 0]
             ELSE [rotary |-> [r EXCEPT !.counter = r.counter + 1], pass |-> FALSE]

\* RotaryEncoder_Sample on st = [rotary, queue, pushed] with the three pins as
\* read and systemTick
RotarySample(st, currentClk, currentData, currentButton, tick) ==
    IF st.rotary.isEnabled = 0 THEN st
    ELSE
    LET direction == IF currentData # 0 THEN -1 ELSE 1
        s1 == IF currentClk # st.rotary.lastClk
              THEN LET a == ApplySensitivity(st.rotary, direction)
                       e == IF currentClk = 0
                            THEN IF a.pass
                                 THEN EnqueueEvent([st EXCEPT !.rotary = a.rotary],
                                                   direction, 0, 0, 0)
                                 ELSE [st EXCEPT !.rotary = a.rotary]
                            ELSE st
                   IN  [e EXCEPT !.rotary.lastClk = currentClk]
              ELSE st
        s2 == IF currentButton # s1.rotary.lastButtonState
              THEN [s1 EXCEPT !.rotary.lastDebounceTime = tick]
              ELSE s1
        s3 == IF tick - s2.rotary.lastDebounceTime > ROTARY_DEBOUNCE_TIME
              THEN IF s2.rotary.lastButtonState # 0 /\ currentButton = 0
                   THEN [s2 EXCEPT !.rotary.buttonPressTime = tick,
                                   !.rotary.isButtonLongPress = 0]
                   ELSE IF s2.rotary.lastButtonState = 0 /\ currentButton # 0
                        THEN IF s2.rotary.isButtonLongPress = 0
                             THEN EnqueueEvent(s2, 0, 1, 1, 0)
                             ELSE EnqueueEvent(s2, 0, 0, 1, 0)
                        ELSE s2
              ELSE s2
        s4 == IF currentButton = 0 /\ s3.rotary.isButtonLongPress = 0
                 /\ tick - s3.rotary.buttonPressTime > ROTARY_LONGPRESS_TIME
              THEN EnqueueEvent([s3 EXCEPT !.rotary.isButtonLongPress = 1], 0, 0, 0, 1)
              ELSE s3
    IN  [s4 EXCEPT !.rotary.lastButtonState = currentButton]

----------------------------------------------------------------------------
(* Rotary encoder: operations                                              *)

MaxRotarySamples == 5            \* samples in one run
MaxRotaryTicks == 3              \* ticks of systemTick in one run

NoRotLocal == [idx |-> 0, event |-> NoRotaryEvent, hit |-> FALSE]

\* the statics as the file initialises them
RotaryStatics ==
    /\ rotary = [lastClk |-> 0, lastData |-> 0, lastButtonState |-> 0,
                 buttonPressTime |-> 0, lastDebounceTime |-> 0, isButtonLongPress |-> 0,
                 isEnabled |-> 1, currentMode |-> "ROTARY_MODE_NORMAL",
                 accumulator |-> 0, counter |-> 0]
    /\ rotaryQueue = [eventQueue |-> [k \in RotarySlots |-> NoRotaryEvent],
                      queueHead |-> 0, queueTail |-> 0, queueCount |-> 0]
    /\ rotReady = FALSE
    /\ rotPc = "idle"
    /\ rotLocal = NoRotLocal
    /\ rotPushed = 0
    /\ rotReturned = NoRotaryEvent
    /\ rotSamples = 0

RotaryFrame == UNCHANGED <<rotary, rotReady, rotPushed, rotSamples>>

RotaryEncoder_Init(clk, data, button) ==
    /\ ~rotReady
    /\ rotReady' = TRUE
    /\ rotary' = [rotary EXCEPT !.lastClk = clk, !.lastData = data,
                                !.lastButtonState = button,
                                !.currentMode = "ROTARY_MODE_NORMAL", !.isEnabled = 1]
    /\ rotaryQueue' = [rotaryQueue EXCEPT !.queueHead = 0, !.queueTail = 0,
                                          !.queueCount = 0]
    /\ UNCHANGED <<rotPc, rotLocal, rotPushed, rotReturned, rotSamples>>
    /\ UNCHANGED NotRotary

RotaryEncoder_SetMode(mode) ==
    /\ rotReady /\ rotPc = "idle"
    /\ rotSamples = 0               \* the mode is chosen before sampling starts
    /\ mode # rotary.currentMode
    /\ rotary' = [rotary EXCEPT !.currentMode = mode]
    /\ UNCHANGED <<rotaryQueue, rotReady, rotPc, rotLocal, rotPushed, rotReturned,
                   rotSamples>>
    /\ UNCHANGED NotRotary

\* RotaryEncoder_Sample, called from the TIM3 interrupt: all it does, the
\* interrupted call's registers left to the caller
RotarySampleWithin(clk, data, button, maxSamples) ==
    /\ rotReady
    /\ rotSamples < maxSamples
    /\ LET st == RotarySample([rotary |-> rotary, queue |-> rotaryQueue,
                               pushed |-> rotPushed],
                              clk, data, button, shared.systemTick)
       IN  /\ rotary' = st.rotary
           /\ rotaryQueue' = st.queue
           /\ rotPushed' = st.pushed
    /\ rotSamples' = rotSamples + 1
    /\ UNCHANGED <<rotReady, rotPc, rotReturned>>

RotarySampleEffect(clk, data, button) ==
    RotarySampleWithin(clk, data, button, MaxRotarySamples) /\ UNCHANGED NotRotary

\* the sampling interrupt while the main loop is between two calls
RotaryEncoder_Sample(clk, data, button) ==
    /\ rotPc = "idle"
    /\ RotarySampleEffect(clk, data, button)
    /\ UNCHANGED rotLocal

\* the TIM2 interrupt advancing systemTick
RotaryTick == shared.systemTick < MaxRotaryTicks /\ TimerInterrupt(2, FALSE)

\* RotaryEncoder_GetEvent run without interruption; on an empty queue it
\* returns 0 and changes nothing
RotaryEncoder_GetEvent ==
    /\ rotReady /\ rotPc = "idle"
    /\ rotaryQueue.queueCount # 0
    /\ rotReturned' = rotaryQueue.eventQueue[rotaryQueue.queueTail]
    /\ rotaryQueue' = [rotaryQueue EXCEPT
                          !.queueTail = (rotaryQueue.queueTail + 1) % ROTARY_QUEUE_SIZE,
                          !.queueCount = rotaryQueue.queueCount - 1]
    /\ UNCHANGED <<rotPc, rotLocal>>
    /\ RotaryFrame /\ UNCHANGED NotRotary

RotaryNext ==
    \/ \E clk, data, button \in {0, 1} : RotaryEncoder_Init(clk, data, button)
    \/ \E mode \in RotaryModes : RotaryEncoder_SetMode(mode)
    \/ \E clk, data, button \in {0, 1} : RotaryEncoder_Sample(clk, data, button)
    \/ RotaryTick
    \/ RotaryEncoder_GetEvent

----------------------------------------------------------------------------
(* Rotary encoder: RotaryEncoder_GetEvent instruction by instruction, the   *)
(* sampling interrupt able to run once between any two of them              *)

RotaryInterrupt(clk, data, button) ==
    /\ rotPc # "idle"
    /\ ~rotLocal.hit
    /\ RotarySampleEffect(clk, data, button)
    /\ rotLocal' = [rotLocal EXCEPT !.hit = TRUE]

\* if (queueCount == 0) return 0;
RotaryGet_Check ==
    /\ rotReady /\ rotPc = "idle"
    /\ rotaryQueue.queueCount # 0
    /\ rotPc' = "index"
    /\ rotLocal' = NoRotLocal
    /\ UNCHANGED <<rotaryQueue, rotReturned>>
    /\ RotaryFrame /\ UNCHANGED NotRotary

\* the load of queueTail for the copy
RotaryGet_Index ==
    /\ rotPc = "index"
    /\ rotLocal' = [rotLocal EXCEPT !.idx = rotaryQueue.queueTail]
    /\ rotPc' = "copy"
    /\ UNCHANGED <<rotaryQueue, rotReturned>>
    /\ RotaryFrame /\ UNCHANGED NotRotary

\* *event = eventQueue[queueTail]: the four bytes in one load, or the
\* direction first
RotaryGet_Copy(whole) ==
    /\ rotPc = "copy"
    /\ LET slot == rotaryQueue.eventQueue[rotLocal.idx]
       IN  rotLocal' = [rotLocal EXCEPT
                           !.event = IF whole THEN slot
                                     ELSE [rotLocal.event EXCEPT
                                              !.direction = slot.direction,
                                              !.id = slot.id]]
    /\ rotPc' = IF whole THEN "update" ELSE "copy2"
    /\ UNCHANGED <<rotaryQueue, rotReturned>>
    /\ RotaryFrame /\ UNCHANGED NotRotary

\* the remaining bytes of the copy: the three button flags
RotaryGet_Copy2 ==
    /\ rotPc = "copy2"
    /\ LET slot == rotaryQueue.eventQueue[rotLocal.idx]
       IN  rotLocal' = [rotLocal EXCEPT
                           !.event.buttonPressed = slot.buttonPressed,
                           !.event.buttonReleased = slot.buttonReleased,
                           !.event.buttonHeld = slot.buttonHeld]
    /\ rotPc' = "update"
    /\ UNCHANGED <<rotaryQueue, rotReturned>>
    /\ RotaryFrame /\ UNCHANGED NotRotary

\* __disable_irq(); queueTail = ...; queueCount--; __enable_irq(); return 1;
RotaryGet_Update ==
    /\ rotPc = "update"
    /\ rotaryQueue' = [rotaryQueue EXCEPT
                          !.queueTail = (rotaryQueue.queueTail + 1) % ROTARY_QUEUE_SIZE,
                          !.queueCount = (rotaryQueue.queueCount - 1) % 256]
    /\ rotReturned' = rotLocal.event
    /\ rotPc' = "idle"
    /\ UNCHANGED rotLocal
    /\ RotaryFrame /\ UNCHANGED NotRotary

RotaryRaceNext ==
    \/ \E clk, data, button \in {0, 1} : RotaryEncoder_Init(clk, data, button)
    \/ \E mode \in RotaryModes : RotaryEncoder_SetMode(mode)
    \/ \E clk, data, button \in {0, 1} : RotaryEncoder_Sample(clk, data, button)
    \/ \E clk, data, button \in {0, 1} : RotaryInterrupt(clk, data, button)
    \/ RotaryTick
    \/ RotaryGet_Check
    \/ RotaryGet_Index
    \/ \E whole \in BOOLEAN : RotaryGet_Copy(whole)
    \/ RotaryGet_Copy2
    \/ RotaryGet_Update

----------------------------------------------------------------------------
(* Rotary encoder: properties                                              *)

RotaryConsistent ==
    /\ rotaryQueue.queueCount \in 0 .. ROTARY_QUEUE_SIZE
    /\ rotaryQueue.queueCount % ROTARY_QUEUE_SIZE
           = (rotaryQueue.queueHead - rotaryQueue.queueTail) % ROTARY_QUEUE_SIZE

\* C26: whatever the interleaving of the sampling interrupt with
\* RotaryEncoder_GetEvent, a call that returns 1 returns the event it removes
\* from the queue, the oldest one not yet dropped, exactly as it was
\* enqueued, and head, tail and count stay consistent.
C26_RotaryQueueRaceFree ==
    [][/\ RotaryConsistent'
       /\ (rotPc = "update" /\ rotPc' = "idle") =>
              rotReturned' = rotaryQueue.eventQueue[rotaryQueue.queueTail]
      ]_vars

----------------------------------------------------------------------------
(* Both input queues under the TIM3 interrupt, which samples the encoder    *)
(* and then the buttons; every call runs to completion. The encoder's       *)
(* button stays released and its data pin low.                             *)

MaxQueueSamples == 6             \* TIM3 interrupts in one run

NotInput == <<Dsp, uvars, mvars, svars>>

\* HAL_TIM_PeriodElapsedCallback, TIM3: RotaryEncoder_Sample(); ButtonHandler_Sample();
SamplingInterrupt(pins, clk) ==
    /\ btnPc = "idle" /\ rotPc = "idle"
    /\ RotarySampleWithin(clk, 0, 1, MaxQueueSamples)
    /\ ButtonSampleWithin(pins, MaxQueueSamples)
    /\ UNCHANGED <<btnLocal, rotLocal>>
    /\ UNCHANGED NotInput

QueuesNext ==
    \/ \E pins \in PinLevels : ButtonHandler_Init(pins)
    \/ \E clk \in {0, 1} : RotaryEncoder_Init(clk, 0, 1)
    \/ RotaryEncoder_SetMode("ROTARY_MODE_COARSE")
    \/ \E pins \in PinLevels, clk \in {0, 1} : SamplingInterrupt(pins, clk)
    \/ ButtonHandler_GetEvent
    \/ RotaryEncoder_GetEvent
    \/ ButtonHandler_ClearEvents

\* the queued events, oldest first
ButtonContents(q) == [k \in 1 .. q.count |-> q.events[(q.tail + k - 1) % BUTTON_QUEUE_SIZE]]
RotaryContents(q) ==
    [k \in 1 .. q.queueCount |-> q.eventQueue[(q.queueTail + k - 1) % ROTARY_QUEUE_SIZE]]

LastN(seq, n) == IF Len(seq) <= n THEN seq ELSE SubSeq(seq, Len(seq) - n + 1, Len(seq))
NewButtonEvents == [k \in 1 .. (Len(btnLog') - Len(btnLog)) |-> btnLog'[Len(btnLog) + k].ev]
NewRotaryEvents == SelectSeq(RotaryContents(rotaryQueue'), LAMBDA ev : ev.id > rotPushed)

----------------------------------------------------------------------------
(* UI manager (user_interface.c) on top of the button handler; times are    *)
(* scaled down. HAL_GetTick and the sampling timer both run at 1 kHz and    *)
(* are taken to tick together.                                             *)

UI_STATE_NORMAL == 0
UI_STATE_EDIT_VALUE == 1
UI_STATE_CONFIRM_ACTION == 2
EDIT_TIMEOUT == 2                \* scaled down from 5000
REFRESH_INTERVAL == 2            \* scaled down from 100
UI_HOLD_CALLS == 4               \* BUTTON_HOLD_TIME / REFRESH_INTERVAL, scaled down from 15

BUTTON_BACK == 1
BUTTON_OK == 6                   \* the UI's name for its OK button; no header under src/
                                 \* defines it, so it gets an id outside ButtonID_t

\* the buttons the UI keeps a hold counter for: BUTTON_MENU (the sampled one),
\* BUTTON_BACK and BUTTON_OK
UiButtons == ButtonIds \cup {BUTTON_BACK, BUTTON_OK}

\* the names the UI switches on; the sampled button is BUTTON_MENU
ButtonName(b) ==
    CASE b = 0 -> "BUTTON_MENU"
      [] b = BUTTON_BACK -> "BUTTON_BACK"
      [] b = BUTTON_OK -> "BUTTON_OK"
      [] OTHER -> "BUTTON_OTHER"

\* a dialog that answers an event whatever its state, not only PRESSED
HandleConfirmModeButton_AnyState(u, ev) ==
    CASE ButtonName(ev.button) = "BUTTON_OK" ->
             [u EXCEPT !.confirmCalls = IF u.confirmCallback THEN Append(@, 1) ELSE @,
                       !.uiState = UI_STATE_NORMAL]
      [] ButtonName(ev.button) = "BUTTON_BACK" ->
             [u EXCEPT !.confirmCalls = IF u.confirmCallback THEN Append(@, 0) ELSE @,
                       !.uiState = UI_STATE_NORMAL]
      [] OTHER -> u

\* confirmCalls lists the arguments the confirm callback was invoked with
\* since the dialog was shown
HandleConfirmModeButton(u, ev) ==
    IF ev.state = BUTTON_STATE_PRESSED
    THEN CASE ButtonName(ev.button) = "BUTTON_OK" ->
                  [u EXCEPT !.confirmCalls = IF u.confirmCallback THEN Append(@, 1) ELSE @,
                            !.uiState = UI_STATE_NORMAL]
           [] ButtonName(ev.button) = "BUTTON_BACK" ->
                  [u EXCEPT !.confirmCalls = IF u.confirmCallback THEN Append(@, 0) ELSE @,
                            !.uiState = UI_STATE_NORMAL]
           [] OTHER -> u
    ELSE u

HandleEditModeButton(u, ev) ==
    IF ev.state = BUTTON_STATE_PRESSED
    THEN CASE ButtonName(ev.button) = "BUTTON_OK" ->
                  [u EXCEPT !.called = u.called \/ u.editCallback,
                            !.uiState = UI_STATE_NORMAL]
           [] ButtonName(ev.button) = "BUTTON_BACK" -> [u EXCEPT !.uiState = UI_STATE_NORMAL]
           [] OTHER -> u
    ELSE u

\* in the other modes the event goes to the menu, which leaves these statics alone
UI_HandleButtonEvent(u, ev, now) ==
    LET u1 == [u EXCEPT !.lastInteractionTime = now,
                        !.handled = Append(@, [button |-> ev.button, state |-> ev.state])]
        u2 == IF ev.state = BUTTON_STATE_PRESSED
              THEN [u1 EXCEPT !.buttonHoldCounter[ev.button] = 1]
              ELSE IF ev.state = BUTTON_STATE_RELEASED
                   THEN [u1 EXCEPT !.buttonHoldCounter[ev.button] = 0]
                   ELSE u1
        u3 == CASE u2.uiState = UI_STATE_EDIT_VALUE -> HandleEditModeButton(u2, ev)
                [] u2.uiState = UI_STATE_CONFIRM_ACTION -> HandleConfirmModeButton(u2, ev)
                [] OTHER -> u2
    IN  [u3 EXCEPT !.needsRefresh = 1]

HandleEditModeRotary(u, ev) ==
    IF ev.direction = 1
    THEN [u EXCEPT !.editValue = IF u.editValue + u.editValueStep > u.editValueMax
                                 THEN u.editValueMax ELSE u.editValue + u.editValueStep]
    ELSE [u EXCEPT !.editValue = IF u.editValue - u.editValueStep < u.editValueMin
                                 THEN u.editValueMin ELSE u.editValue - u.editValueStep]

\* in the list of handled events the encoder stands as button -1
UI_HandleRotaryEvent(u, ev, now) ==
    LET u1 == [u EXCEPT !.lastInteractionTime = now,
                        !.handled = Append(@, [button |-> -1, state |-> ev.direction])]
        u2 == IF u1.uiState = UI_STATE_EDIT_VALUE THEN HandleEditModeRotary(u1, ev) ELSE u1
    IN  [u2 EXCEPT !.needsRefresh = 1]

TimeoutEditMode(u) == [u EXCEPT !.uiState = UI_STATE_NORMAL]

\* the button loop of UI_Update: a counter that was started by a PRESSED
\* event grows with every call and hands the UI a HELD event of its own
RECURSIVE HoldActions(_, _, _)
HoldActions(u, todo, now) ==
    IF todo = {}
    THEN u
    ELSE LET b == CHOOSE x \in todo : \A y \in todo : x <= y
             counted == [u EXCEPT !.buttonHoldCounter[b] = u.buttonHoldCounter[b] + 1]
             next == IF u.buttonHoldCounter[b] > 0
                     THEN IF counted.buttonHoldCounter[b] >= UI_HOLD_CALLS
                          THEN [UI_HandleButtonEvent(
                                    counted,
                                    [button |-> b, state |-> BUTTON_STATE_HELD,
                                     holdTime |-> 0, id |-> 0], now)
                                   EXCEPT !.buttonHoldCounter[b] = 0]
                          ELSE counted
                     ELSE u
         IN  HoldActions(next, todo \ {b}, now)

UI_Update(u, currentTime) ==
    LET u1 == IF u.uiState = UI_STATE_EDIT_VALUE
                 /\ currentTime - u.lastInteractionTime > EDIT_TIMEOUT
              THEN TimeoutEditMode(u)
              ELSE u
        u2 == HoldActions(u1, UiButtons, currentTime)
    IN  IF currentTime - u2.lastRefreshTime >= REFRESH_INTERVAL /\ u2.needsRefresh = 1
        THEN [u2 EXCEPT !.lastRefreshTime = currentTime, !.needsRefresh = 0]
        ELSE u2

----------------------------------------------------------------------------
(* UI manager: operations                                                  *)

HAL_GetTick == buttonTick

\* the statics after UI_Init
UI_Init ==
    /\ ui = [uiState |-> UI_STATE_NORMAL, needsRefresh |-> 1, lastInteractionTime |-> 0,
             lastRefreshTime |-> 0, editValue |-> 0, editValueMin |-> 0,
             editValueMax |-> 0, editValueStep |-> 1, editCallback |-> FALSE,
             buttonHoldCounter |-> [b \in UiButtons |-> 0], called |-> FALSE,
             confirmCallback |-> FALSE, confirmCalls |-> <<>>, handled |-> <<>>]
    /\ uiOp = "UI_Init"
    /\ uiLastEvent = 0
    /\ uiIdle = 0
    /\ uiCalled = FALSE

\* UI_ShowParameterEdit, through UI_EditParameter, from the main loop
UI_ShowParameterEdit(value, min, max, step) ==
    /\ btnReady /\ btnPc = "idle"
    /\ ui' = [ui EXCEPT !.editValue = value, !.editValueMin = min, !.editValueMax = max,
                        !.editValueStep = step, !.editCallback = TRUE,
                        !.uiState = UI_STATE_EDIT_VALUE,
                        !.lastInteractionTime = HAL_GetTick, !.called = FALSE,
                        !.handled = <<>>]
    /\ uiOp' = "UI_ShowParameterEdit"
    /\ uiLastEvent' = HAL_GetTick
    /\ uiIdle' = 0
    /\ uiCalled' = FALSE
    /\ UNCHANGED <<bvars, rvars, Dsp, mvars, svars>>

\* one pass of HandleUserInterface in the main loop: a button event, a rotary
\* event, UI_Update
HandleUserInterfaceEvents ==
    /\ btnReady /\ btnPc = "idle" /\ rotPc = "idle"
    /\ LET now == HAL_GetTick
           hasButton == ~IS_QUEUE_EMPTY(buttonQueue)
           got == QueueGet(buttonQueue)
           hasRotary == rotaryQueue.queueCount # 0
           rotEvent == rotaryQueue.eventQueue[rotaryQueue.queueTail]
           u0 == [ui EXCEPT !.called = FALSE, !.handled = <<>>]
           u1 == IF hasButton THEN UI_HandleButtonEvent(u0, got.event, now) ELSE u0
           u2 == IF hasRotary THEN UI_HandleRotaryEvent(u1, rotEvent, now) ELSE u1
           u3 == UI_Update(u2, now)
           lastEvent == IF hasButton \/ hasRotary THEN now ELSE uiLastEvent
       IN  /\ buttonQueue' = IF hasButton THEN got.queue ELSE buttonQueue
           /\ btnDelivered' = IF hasButton THEN Append(btnDelivered, got.event)
                              ELSE btnDelivered
           /\ rotaryQueue' = IF hasRotary
                             THEN [rotaryQueue EXCEPT
                                      !.queueTail = (rotaryQueue.queueTail + 1)
                                                        % ROTARY_QUEUE_SIZE,
                                      !.queueCount = rotaryQueue.queueCount - 1]
                             ELSE rotaryQueue
           /\ rotReturned' = IF hasRotary THEN rotEvent ELSE rotReturned
           /\ ui' = u3
           /\ uiCalled' = u3.called
           /\ uiLastEvent' = lastEvent
           /\ uiIdle' = IF u2.uiState = UI_STATE_EDIT_VALUE THEN now - lastEvent ELSE 0
    /\ uiOp' = "UI_Update"
    /\ UNCHANGED <<buttons, buttonTick, btnReady, btnPc, btnLocal, btnLog, btnRun,
                   btnPressedFor>>
    /\ UNCHANGED <<rotary, rotReady, rotPc, rotLocal, rotPushed, rotSamples>>
    /\ UNCHANGED <<Dsp, mvars, svars>>

UINext ==
    \/ \E pins \in PinLevels : ButtonHandler_Init(pins)
    \/ \E pins \in PinLevels : ButtonHandler_Sample(pins)
    \/ UI_ShowParameterEdit(1, 0, 2, 1)
    \/ HandleUserInterfaceEvents

----------------------------------------------------------------------------
(* UI manager: properties                                                  *)

\* C30: a UI update that finds the UI in value-edit mode more than
\* EDIT_TIMEOUT ticks after the last rotary or button event leaves it in
\* normal mode and has not invoked the edit callback.
C30_EditTimeout ==
    (uiOp = "UI_Update" /\ uiIdle > EDIT_TIMEOUT) =>
        /\ ui.uiState = UI_STATE_NORMAL
        /\ ~uiCalled

----------------------------------------------------------------------------
(* UI manager: the confirmation dialog. The sampled button reaches the UI   *)
(* through the main loop; BUTTON_OK, BUTTON_BACK and the encoder are        *)
(* handed to the UI's handlers directly.                                   *)

MaxDialogTicks == 3              \* TIM3 interrupts in one run

DialogFrame == UNCHANGED <<uiLastEvent, uiIdle, uiCalled, bvars, rvars, Dsp, mvars, svars>>

\* UI_ShowConfirmDialog; the callback may be NULL
UI_ShowConfirmDialog(callback) ==
    /\ btnReady /\ btnPc = "idle"
    /\ ui' = [ui EXCEPT !.confirmCallback = callback, !.confirmCalls = <<>>,
                        !.uiState = UI_STATE_CONFIRM_ACTION, !.handled = <<>>]
    /\ uiOp' = "UI_ShowConfirmDialog"
    /\ DialogFrame

\* the sampling interrupt, also the clock of the dialog runs
DialogSample(pins) ==
    /\ btnPc = "idle"
    /\ ButtonSampleWithin(pins, MaxDialogTicks)
    /\ UNCHANGED btnLocal
    /\ UNCHANGED NotButton

\* a button event of BUTTON_OK or BUTTON_BACK given to UI_HandleButtonEvent
DialogButtonEvent(button, state) ==
    /\ btnReady /\ btnPc = "idle"
    /\ ui' = UI_HandleButtonEvent(
                 [ui EXCEPT !.called = FALSE, !.handled = <<>>],
                 [button |-> button, state |-> state, holdTime |-> 0, id |-> 0],
                 HAL_GetTick)
    /\ uiOp' = "UI_HandleButtonEvent"
    /\ DialogFrame

\* a rotary event given to UI_HandleRotaryEvent
DialogRotaryEvent(direction) ==
    /\ btnReady /\ btnPc = "idle"
    /\ ui' = UI_HandleRotaryEvent(
                 [ui EXCEPT !.called = FALSE, !.handled = <<>>],
                 [direction |-> direction, buttonPressed |-> 0, buttonReleased |-> 0,
                  buttonHeld |-> 0, id |-> 0],
                 HAL_GetTick)
    /\ uiOp' = "UI_HandleRotaryEvent"
    /\ DialogFrame

DialogNext ==
    \/ ButtonHandler_Init([b \in ButtonIds |-> 0])
    \/ \E pins \in PinLevels : DialogSample(pins)
    \/ \E callback \in BOOLEAN : UI_ShowConfirmDialog(callback)
    \/ \E button \in {BUTTON_BACK, BUTTON_OK},
          state \in {BUTTON_STATE_RELEASED, BUTTON_STATE_PRESSED, BUTTON_STATE_HELD,
                     BUTTON_STATE_DOUBLE_CLICKED} : DialogButtonEvent(button, state)
    \/ \E direction \in {-1, 1} : DialogRotaryEvent(direction)
    \/ HandleUserInterfaceEvents

Pressed(u, button) ==
    \E k \in 1 .. Len(u.handled) :
        u.handled[k] = [button |-> button, state |-> BUTTON_STATE_PRESSED]

\* C31: while the confirmation dialog is shown (with a callback), a PRESSED
\* event of OK invokes the callback once with 1, one of BACK invokes it once
\* with 0, and both leave the UI in normal mode; every other button, rotary
\* or timer step leaves the dialog open and the callback uninvoked.
C31_ConfirmOnce ==
    [][(ui.uiState = UI_STATE_CONFIRM_ACTION /\ ui.confirmCallback
            /\ uiOp' # "UI_ShowConfirmDialog") =>
          /\ ui.confirmCalls = <<>>
          /\ Pressed(ui', BUTTON_OK) =>
                 ui'.uiState = UI_STATE_NORMAL /\ ui'.confirmCalls = <<1>>
          /\ Pressed(ui', BUTTON_BACK) =>
                 ui'.uiState = UI_STATE_NORMAL /\ ui'.confirmCalls = <<0>>
          /\ ~(Pressed(ui', BUTTON_OK) \/ Pressed(ui', BUTTON_BACK)) =>
                 ui'.uiState = UI_STATE_CONFIRM_ACTION /\ ui'.confirmCalls = <<>>
      ]_vars

\* a run in which the sampled button was pressed and its event delivered, the
\* clock ticked, and a dialog was cancelled with BACK
C31_Witness ==
    /\ ui.uiState = UI_STATE_NORMAL
    /\ ui.confirmCalls = <<0>>
    /\ uiOp = "UI_HandleButtonEvent"
    /\ ui.lastInteractionTime > 0
    /\ \E k \in 1 .. Len(btnDelivered) : btnDelivered[k].state = BUTTON_STATE_PRESSED

----------------------------------------------------------------------------
(* Menu system (menu_system.c)                                             *)

MaxMenuEvents == 9               \* button and encoder events in one run

MAX_MENU_DEPTH == 5
MENU_STATE_BROWSING == 0
MENU_STATE_EDITING == 1
MENU_STATE_CONFIRMATION == 2
CONFIRM_YES == 0
CONFIRM_NO == 1
CONFIRM_ACTION_SAVE_PRESET == 0
CONFIRM_ACTION_LOAD_PRESET == 1
BUTTON_ENCODER == 2
BUTTON_HOME == 7                 \* the menu's name for its home button; no header
                                 \* under src/ defines it, so it gets an id outside
                                 \* ButtonID_t
BUTTON_PRESET_1 == 3

MenuBands == 0 .. 3              \* BAND_SUB .. BAND_HIGH
StackSlots == 0 .. (MAX_MENU_DEPTH - 1)

\* the parameters the update callbacks can reach: <<callback, paramId, band>>
ParamKeys ==
    ({"UpdateCrossoverParameter"} \X (0 .. 3) \X MenuBands)
        \cup ({"UpdateCompressorParameter"} \X (0 .. 4) \X {0})
        \cup ({"UpdateLimiterParameter"} \X (0 .. 1) \X {0})
        \cup ({"UpdateDelayParameter"} \X {0} \X MenuBands)
        \cup ({"UpdatePhaseParameter"} \X {0} \X MenuBands)

\* a Menu_t: its items (id and callback of each), numItems, currentItem
MenuOf(callback, ids) ==
    [items |-> [k \in 1 .. Len(ids) |-> [id |-> ids[k], callback |-> callback]],
     numItems |-> Len(ids),
     currentItem |-> 0]

\* a zero-initialised Menu_t of the static menuStack
NoMenu == [items |-> <<>>, numItems |-> 0, currentItem |-> 0]

\* &menuStack[i], read
StackRef(m, i) == [m EXCEPT !.indexed = @ \cup {i}]

\* menuStack[i] filled by a builder; a slot outside the array is recorded in
\* indexed and written nowhere in the model
StackBuild(m, i, built) ==
    IF i \in StackSlots
    THEN [m EXCEPT !.menuStack[i] = built, !.indexed = @ \cup {i}]
    ELSE [m EXCEPT !.indexed = @ \cup {i}]

StackAt(m, i) == IF i \in StackSlots THEN m.menuStack[i] ELSE NoMenu

\* menuDepth++ and menuDepth-- on the uint8_t
DepthInc(m) ==
    LET d == (m.menuDepth + 1) % 256
    IN  [m EXCEPT !.menuDepth = d, !.peak = IF d > @ THEN d ELSE @]

DepthDec(m) == [m EXCEPT !.menuDepth = (m.menuDepth + 255) % 256]

Menu_Display(m) == StackRef(m, m.menuDepth)

BuildMainMenu(m) == StackBuild(m, 0, MenuOf("MainMenuCallback", <<0, 1, 2, 3, 4, 5>>))

BuildCrossoverMenu(m) ==
    StackBuild(m, m.menuDepth, MenuOf("CrossoverMenuCallback", <<0, 1, 2, 3>>))

BuildCrossoverBandMenu(m, band) ==
    StackBuild(m, m.menuDepth, MenuOf("CrossoverBandMenuCallback", <<0, 1, 2, 3>>))

BuildCompressorMenu(m) ==
    StackBuild(m, m.menuDepth, MenuOf("CompressorMenuCallback", <<0, 1, 2, 3, 4>>))

BuildLimiterMenu(m) ==
    StackBuild(m, m.menuDepth, MenuOf("LimiterMenuCallback", <<0, 1>>))

BuildDelayPhaseMenu(m) ==
    StackBuild(m, m.menuDepth,
               MenuOf("DelayPhaseMenuCallback", <<0, 1, 2, 3, 4, 5, 6, 7>>))

BuildPresetMenu(m) ==
    StackBuild(m, m.menuDepth, MenuOf("PresetMenuCallback", <<0, 1>>))

\* five factory presets, then one item per user preset while there is room
BuildLoadPresetMenu(m) ==
    LET room == 10 - 5
        users == IF m.numUserPresets < room THEN m.numUserPresets ELSE room
    IN  StackBuild(m, m.menuDepth,
                   MenuOf("LoadPresetMenuCallback", [k \in 1 .. (5 + users) |-> k - 1]))

BuildSavePresetMenu(m) ==
    StackBuild(m, m.menuDepth, MenuOf("SavePresetMenuCallback", <<0, 1, 2, 3, 4>>))

\* the module setters behind the update callbacks.  Delay_SetPhaseInvert is in
\* delay.c; the other setters and every getter are not under src/, and the
\* module is taken to keep the value it was sent
UpdateParameter(m, updateCallback, band, paramId, value) ==
    LET key == <<updateCallback,
                 paramId,
                 IF updateCallback \in {"UpdateCompressorParameter",
                                        "UpdateLimiterParameter"} THEN 0 ELSE band>>
    IN  IF key \notin ParamKeys
        THEN m
        ELSE IF updateCallback = "UpdatePhaseParameter"
        THEN IF band >= DELAY_NUM_CHANNELS
             THEN m
             ELSE [m EXCEPT !.store[key] = IF value % 256 # 0 THEN 1 ELSE 0,
                            !.sent = @ + 1]
        ELSE [m EXCEPT !.store[key] = value, !.sent = @ + 1]

\* Crossover_GetFrequency(band), Compressor_GetThreshold(), ...
GetParameter(m, updateCallback, paramId, band) == m.store[<<updateCallback, paramId, band>>]

EditParameter(m, value, minValue, maxValue, step, paramId, bandId, updateCallback) ==
    [m EXCEPT !.currentParameter =
                  [value |-> value, minValue |-> minValue, maxValue |-> maxValue,
                   step |-> step, originalValue |-> value, paramId |-> paramId,
                   bandId |-> bandId, updateCallback |-> updateCallback],
              !.menuState = MENU_STATE_EDITING,
              !.atStart = m.store,
              !.sent = 0]

ApplyParameterEdit(m) ==
    LET p == m.currentParameter
    IN  IF p.updateCallback # ""
        THEN UpdateParameter(m, p.updateCallback, p.bandId, p.paramId, p.value)
        ELSE m

\* a cancel that sends the edited value instead of the original one
CancelParameterEdit_Current(m) == ApplyParameterEdit(m)

CancelParameterEdit(m) ==
    LET p == m.currentParameter
    IN  IF p.updateCallback # ""
        THEN UpdateParameter(m, p.updateCallback, p.bandId, p.paramId, p.originalValue)
        ELSE m

ShowConfirmation(m, action) ==
    [m EXCEPT !.confirmationAction = action,
              !.confirmationOption = CONFIRM_YES,
              !.menuState = MENU_STATE_CONFIRMATION]

\* the preset call made, <<function, argument>>
HandleConfirmation(m) ==
    IF m.confirmationOption = CONFIRM_YES
    THEN CASE m.confirmationAction = CONFIRM_ACTION_SAVE_PRESET ->
                  [m EXCEPT !.presetCall = <<"PresetManager_SaveUserPreset", m.selectedPreset>>]
           [] m.confirmationAction = CONFIRM_ACTION_LOAD_PRESET ->
                  IF m.selectedPreset < 5
                  THEN [m EXCEPT !.presetCall = <<"FactoryPresets_Load", m.selectedPreset>>]
                  ELSE [m EXCEPT !.presetCall =
                                     <<"PresetManager_LoadUserPreset", m.selectedPreset - 5>>]
           [] OTHER -> m
    ELSE m

\* a delay editor that leaves menuDepth one level down
BuildDelayBandMenu_KeepDepth(m, band) ==
    EditParameter(m, GetParameter(m, "UpdateDelayParameter", 0, band), 0, 100, 1,
                  0, band, "UpdateDelayParameter")

\* an editor opened where a submenu would be built: the depth goes back down
BuildDelayBandMenu(m, band) ==
    DepthDec(EditParameter(m, GetParameter(m, "UpdateDelayParameter", 0, band), 0, 100, 1,
                           0, band, "UpdateDelayParameter"))

BuildPhaseBandMenu(m, band) ==
    DepthDec(EditParameter(m, GetParameter(m, "UpdatePhaseParameter", 0, band), 0, 1, 1,
                           0, band, "UpdatePhaseParameter"))

MainMenuCallback(m, itemId) ==
    LET m1 == DepthInc(m)
    IN  CASE itemId = 0 -> Menu_Display(BuildCrossoverMenu(m1))
          [] itemId = 1 -> Menu_Display(BuildCompressorMenu(m1))
          [] itemId = 2 -> Menu_Display(BuildLimiterMenu(m1))
          [] itemId = 3 -> Menu_Display(BuildDelayPhaseMenu(m1))
          [] itemId = 4 -> Menu_Display(BuildPresetMenu(m1))
          [] itemId = 5 -> DepthDec(m1)
          [] OTHER -> Menu_Display(DepthDec(m1))

CrossoverMenuCallback(m, itemId) ==
    LET m1 == DepthInc(m)
    IN  IF itemId \in MenuBands
        THEN Menu_Display(BuildCrossoverBandMenu(m1, itemId))
        ELSE Menu_Display(DepthDec(m1))

\* the band is the item selected one level up
CrossoverBandMenuCallback(m, itemId) ==
    LET up == (m.menuDepth + 255) % 256
        m1 == StackRef(m, up)
        above == StackAt(m, up)
        band == IF above.currentItem + 1 \in DOMAIN above.items
                THEN above.items[above.currentItem + 1].id
                ELSE 255
        minFreq == CASE band = 1 -> 100 [] band = 2 -> 500 [] band = 3 -> 2000 [] OTHER -> 20
        maxFreq == CASE band = 0 -> 200 [] band = 1 -> 2000 [] band = 2 -> 8000 [] OTHER -> 20000
        current == GetParameter(m, "UpdateCrossoverParameter", itemId, band)
    IN  IF band \notin MenuBands
        THEN m1
        ELSE CASE itemId = 0 -> EditParameter(m1, current, minFreq, maxFreq, 10,
                                              0, band, "UpdateCrossoverParameter")
               [] itemId = 1 -> EditParameter(m1, current, 0, 1, 1,
                                              1, band, "UpdateCrossoverParameter")
               [] itemId = 2 -> EditParameter(m1, current, -200, 120, 1,
                                              2, band, "UpdateCrossoverParameter")
               [] itemId = 3 -> EditParameter(m1, current, 0, 1, 1,
                                              3, band, "UpdateCrossoverParameter")
               [] OTHER -> m1

CompressorMenuCallback(m, itemId) ==
    LET current == GetParameter(m, "UpdateCompressorParameter", itemId, 0)
    IN  CASE itemId = 0 -> EditParameter(m, current, -600, 0, 1, 0, 0, "UpdateCompressorParameter")
          [] itemId = 1 -> EditParameter(m, current, 10, 100, 1, 1, 0, "UpdateCompressorParameter")
          [] itemId = 2 -> EditParameter(m, current, 1, 200, 1, 2, 0, "UpdateCompressorParameter")
          [] itemId = 3 -> EditParameter(m, current, 10, 1000, 10, 3, 0, "UpdateCompressorParameter")
          [] itemId = 4 -> EditParameter(m, current, 0, 200, 1, 4, 0, "UpdateCompressorParameter")
          [] OTHER -> m

LimiterMenuCallback(m, itemId) ==
    LET current == GetParameter(m, "UpdateLimiterParameter", itemId, 0)
    IN  CASE itemId = 0 -> EditParameter(m, current, -300, 0, 1, 0, 0, "UpdateLimiterParameter")
          [] itemId = 1 -> EditParameter(m, current, 10, 1000, 10, 1, 0, "UpdateLimiterParameter")
          [] OTHER -> m

DelayPhaseMenuCallback(m, itemId) ==
    LET m1 == DepthInc(m)
    IN  CASE itemId \in 0 .. 3 -> Menu_Display(BuildDelayBandMenu(m1, itemId))
          [] itemId \in 4 .. 7 -> Menu_Display(BuildPhaseBandMenu(m1, itemId - 4))
          [] OTHER -> Menu_Display(DepthDec(m1))

PresetMenuCallback(m, itemId) ==
    LET m1 == DepthInc(m)
    IN  CASE itemId = 0 -> Menu_Display(BuildLoadPresetMenu(m1))
          [] itemId = 1 -> Menu_Display(BuildSavePresetMenu(m1))
          [] OTHER -> Menu_Display(DepthDec(m1))

LoadPresetMenuCallback(m, itemId) ==
    ShowConfirmation([m EXCEPT !.selectedPreset = itemId], CONFIRM_ACTION_LOAD_PRESET)

SavePresetMenuCallback(m, itemId) ==
    ShowConfirmation([m EXCEPT !.selectedPreset = itemId], CONFIRM_ACTION_SAVE_PRESET)

\* items[currentItem].callback(items[currentItem].id)
ItemCallback(m, callback, itemId) ==
    CASE callback = "MainMenuCallback" -> MainMenuCallback(m, itemId)
      [] callback = "CrossoverMenuCallback" -> CrossoverMenuCallback(m, itemId)
      [] callback = "CrossoverBandMenuCallback" -> CrossoverBandMenuCallback(m, itemId)
      [] callback = "CompressorMenuCallback" -> CompressorMenuCallback(m, itemId)
      [] callback = "LimiterMenuCallback" -> LimiterMenuCallback(m, itemId)
      [] callback = "DelayPhaseMenuCallback" -> DelayPhaseMenuCallback(m, itemId)
      [] callback = "PresetMenuCallback" -> PresetMenuCallback(m, itemId)
      [] callback = "LoadPresetMenuCallback" -> LoadPresetMenuCallback(m, itemId)
      [] callback = "SavePresetMenuCallback" -> SavePresetMenuCallback(m, itemId)
      [] OTHER -> m

Menu_ShowMain(m) == Menu_Display(BuildMainMenu([m EXCEPT !.menuDepth = 0]))

Menu_HandleRotary(m, direction) ==
    LET m0 == StackRef(m, m.menuDepth)
        cur == StackAt(m, m.menuDepth)
        p == m.currentParameter
        moved == IF direction > 0
                 THEN IF cur.currentItem < cur.numItems - 1 THEN cur.currentItem + 1 ELSE 0
                 ELSE IF cur.currentItem > 0
                      THEN cur.currentItem - 1
                      ELSE (cur.numItems + 255) % 256
        stepped == p.value + direction * p.step
        value == IF stepped > p.maxValue
                 THEN IF p.maxValue < p.minValue THEN p.minValue ELSE p.maxValue
                 ELSE IF stepped < p.minValue THEN p.minValue ELSE stepped
        m1 == [m0 EXCEPT !.currentParameter.value = value]
    IN  CASE m.menuState = MENU_STATE_BROWSING ->
                 IF m.menuDepth \in StackSlots
                 THEN Menu_Display([m0 EXCEPT !.menuStack[m.menuDepth].currentItem = moved])
                 ELSE Menu_Display(m0)
          [] m.menuState = MENU_STATE_EDITING ->
                 IF p.updateCallback # ""
                 THEN UpdateParameter(m1, p.updateCallback, p.bandId, p.paramId, value)
                 ELSE m1
          [] m.menuState = MENU_STATE_CONFIRMATION ->
                 [m0 EXCEPT !.confirmationOption =
                                IF @ = CONFIRM_YES THEN CONFIRM_NO ELSE CONFIRM_YES]
          [] OTHER -> m0

Menu_HandleButton(m, buttonId) ==
    LET m0 == StackRef(m, m.menuDepth)
        cur == StackAt(m, m.menuDepth)
        item == cur.items[cur.currentItem + 1]
    IN  CASE m.menuState = MENU_STATE_BROWSING ->
                 CASE buttonId = BUTTON_ENCODER ->
                          IF cur.numItems > 0 /\ cur.currentItem + 1 \in DOMAIN cur.items
                          THEN ItemCallback(m0, item.callback, item.id)
                          ELSE m0
                   [] buttonId = BUTTON_BACK ->
                          IF m.menuDepth > 0 THEN Menu_Display(DepthDec(m0)) ELSE m0
                   [] buttonId = BUTTON_HOME -> Menu_ShowMain(m0)
                   [] OTHER -> m0
          [] m.menuState = MENU_STATE_EDITING ->
                 CASE buttonId = BUTTON_ENCODER ->
                          Menu_Display([ApplyParameterEdit(m0) EXCEPT
                                            !.menuState = MENU_STATE_BROWSING])
                   [] buttonId = BUTTON_BACK ->
                          Menu_Display([CancelParameterEdit(m0) EXCEPT
                                            !.menuState = MENU_STATE_BROWSING])
                   [] OTHER -> m0
          [] m.menuState = MENU_STATE_CONFIRMATION ->
                 CASE buttonId = BUTTON_ENCODER ->
                          Menu_Display([HandleConfirmation(m0) EXCEPT
                                            !.menuState = MENU_STATE_BROWSING])
                   [] buttonId = BUTTON_BACK ->
                          Menu_Display([m0 EXCEPT !.menuState = MENU_STATE_BROWSING])
                   [] OTHER -> m0
          [] OTHER -> m0

\* the statics of menu_system.c after Menu_Init, with the ghost fields: indexed
\* (menuStack slots used by the last handler), peak (highest menuDepth the last
\* handler passed through), atStart (the modules' parameters when the last
\* edit was opened), sent (update callbacks made since then)
MenuStatics(numUserPresets) ==
    BuildMainMenu(
        [menuDepth |-> 0,
         menuState |-> MENU_STATE_BROWSING,
         menuStack |-> [i \in StackSlots |-> NoMenu],
         currentParameter |-> [value |-> 0, minValue |-> 0, maxValue |-> 0, step |-> 0,
                               originalValue |-> 0, paramId |-> 0, bandId |-> 0,
                               updateCallback |-> ""],
         confirmationOption |-> CONFIRM_NO,
         confirmationAction |-> 0,
         selectedPreset |-> 0,
         numUserPresets |-> numUserPresets,
         presetCall |-> <<"", 0>>,
         store |-> [key \in ParamKeys |-> 0],
         atStart |-> [key \in ParamKeys |-> 0],
         sent |-> 0,
         indexed |-> {},
         peak |-> 0])

MenuInit ==
    /\ menu = MenuStatics(0)
    /\ menuOp = [op |-> "Menu_Init", arg |-> 0]
    /\ menuEvents = 0

\* one handler call starts with the ghost fields of the call before cleared
Entering(m) == [m EXCEPT !.indexed = {}, !.peak = m.menuDepth]

\* Menu_Init at start-up, with the number of user presets the preset manager
\* reports from then on
Menu_Init(numUserPresets) ==
    /\ menuEvents = 0
    /\ menu' = MenuStatics(numUserPresets)
    /\ menuOp' = [op |-> "Menu_Init", arg |-> numUserPresets]
    /\ UNCHANGED menuEvents
    /\ UNCHANGED NotMenu

MenuButtonEvent(buttonId) ==
    /\ menuEvents < MaxMenuEvents
    /\ menu' = Menu_HandleButton(Entering(menu), buttonId)
    /\ menuOp' = [op |-> "Menu_HandleButton", arg |-> buttonId]
    /\ menuEvents' = menuEvents + 1
    /\ UNCHANGED NotMenu

MenuRotaryEvent(direction) ==
    /\ menuEvents < MaxMenuEvents
    /\ menu' = Menu_HandleRotary(Entering(menu), direction)
    /\ menuOp' = [op |-> "Menu_HandleRotary", arg |-> direction]
    /\ menuEvents' = menuEvents + 1
    /\ UNCHANGED NotMenu

MenuNext ==
    \/ \E numUserPresets \in {0, 3, 10} : Menu_Init(numUserPresets)
    \/ \E buttonId \in {BUTTON_ENCODER, BUTTON_BACK, BUTTON_HOME, BUTTON_PRESET_1} :
           MenuButtonEvent(buttonId)
    \/ \E direction \in {-1, 1} : MenuRotaryEvent(direction)

\* the last step opened a delay or phase editor from the Delay/Phase menu
OpenedDelayPhaseEditor ==
    /\ menu.menuState = MENU_STATE_BROWSING
    /\ menuOp' = [op |-> "Menu_HandleButton", arg |-> BUTTON_ENCODER]
    /\ menu'.menuState = MENU_STATE_EDITING
    /\ menu'.currentParameter.updateCallback \in {"UpdateDelayParameter", "UpdatePhaseParameter"}

\* C32: whatever buttons are pressed and however the encoder is turned, the
\* menu depth stays within 0..4 and no handler uses a menuStack slot outside
\* the 5-entry array; BACK at depth 0 leaves the depth at 0; opening a delay or
\* phase editor leaves the depth where it was.
C32_DepthInStack ==
    [][/\ menu'.menuDepth \in StackSlots
       /\ menu'.peak \in StackSlots
       /\ menu'.indexed \subseteq StackSlots
       /\ (menu.menuDepth = 0 /\ menuOp' = [op |-> "Menu_HandleButton", arg |-> BUTTON_BACK])
              => menu'.menuDepth = 0
       /\ OpenedDelayPhaseEditor => menu'.menuDepth = menu.menuDepth
      ]_vars

\* a delay editor opened from the Delay/Phase menu, one level below the main
\* menu, the handler having passed through depth 2
C32_Witness ==
    /\ menu.menuState = MENU_STATE_EDITING
    /\ menu.currentParameter.updateCallback = "UpdateDelayParameter"
    /\ menu.menuDepth = 1
    /\ menu.peak = 2
    /\ menuOp = [op |-> "Menu_HandleButton", arg |-> BUTTON_ENCODER]

\* C33: BACK during a parameter edit sends the module the value the parameter
\* had when the edit was opened, so that every module parameter is what it was
\* before the encoder was turned, and puts the menu back in browsing.
C33_CancelRestores ==
    [][(menu.menuState = MENU_STATE_EDITING
            /\ menuOp' = [op |-> "Menu_HandleButton", arg |-> BUTTON_BACK]) =>
          /\ menu'.menuState = MENU_STATE_BROWSING
          /\ menu'.store = menu.atStart
          /\ menu'.sent = menu.sent + 1
          /\ menu'.menuDepth = menu.menuDepth
      ]_vars

\* an edit cancelled after two real-time changes had moved the parameter away
\* from where it started
C33_Witness ==
    /\ menu.menuState = MENU_STATE_BROWSING
    /\ menuOp = [op |-> "Menu_HandleButton", arg |-> BUTTON_BACK]
    /\ menu.sent = 3
    /\ menu.currentParameter.value # menu.currentParameter.originalValue
    /\ menu.store = menu.atStart

----------------------------------------------------------------------------
(* Preset manager (preset_manager.c)                                       *)

MaxPresetCalls == 2              \* preset manager calls in one run

MAX_USER_PRESETS == 10
USER_PRESET_START_ID == 5
TOTAL_PRESET_COUNT == USER_PRESET_START_ID + MAX_USER_PRESETS
NUM_FACTORY_PRESETS == 5
PRESET_ID_INVALID == 255
PRESET_ID_CURRENT == 254
PRESET_STATUS_OK == 0
PRESET_STATUS_EMPTY == 1
PRESET_STATUS_INVALID == 2
PRESET_STATUS_ERROR == 3
STRING_MAX_LENGTH == 15
PRESET_VALID_MARKER_HI == 43981  \* 0xABCD, the upper half of PRESET_VALID_MARKER
PRESET_VALID_MARKER_LO == 4660   \* 0x1234, its lower half
PRESET_STORAGE_BASE_ADDR == 134266880
PRESET_STORAGE_SECTOR_SIZE == 16384
PRESET_STORAGE_MAX_SIZE == PRESET_STORAGE_SECTOR_SIZE * 2
SizeofPreset == 256              \* sizeof(Preset_t); the settings types of three of
                                 \* its members are in no header under src/

UserPresetIds == USER_PRESET_START_ID .. (TOTAL_PRESET_COUNT - 1)
MetadataSlots == 0 .. (MAX_USER_PRESETS - 1)

\* a PresetSettings_t, as the bytes CalculateChecksum walks over
SettingsValues == {<<1, 2>>, <<2, 1>>, <<0, 7>>}

\* factoryPresets[presetIndex]
FactorySettings(presetIndex) == <<100 + presetIndex, 0>>

\* names are sequences of characters
DigitChar == <<"0", "1", "2", "3", "4", "5", "6", "7", "8", "9">>

RECURSIVE Decimal(_)
Decimal(n) ==
    IF n < 10 THEN <<DigitChar[n + 1]>> ELSE Decimal(n \div 10) \o <<DigitChar[(n % 10) + 1]>>

\* strncpy / snprintf into a name of STRING_MAX_LENGTH characters
Truncate(name) ==
    IF Len(name) > STRING_MAX_LENGTH THEN SubSeq(name, 1, STRING_MAX_LENGTH) ELSE name

\* snprintf(name, STRING_MAX_LENGTH + 1, "User Preset %d", presetId)
DefaultName(presetId) ==
    Truncate(<<"U", "s", "e", "r", " ", "P", "r", "e", "s", "e", "t", " ">> \o Decimal(presetId))

\* the characters a name may keep, of the ones the names below are written in
NameChars == {"A", "b", "7", " ", "_", "-"}

SanitizePresetName(name) ==
    IF name = <<>>
    THEN <<"U", "s", "e", "r", "_", "P", "r", "e", "s", "e", "t">>
    ELSE [k \in 1 .. Len(name) |-> IF name[k] \in NameChars THEN name[k] ELSE "_"]

NewNames == {<<>>, <<"A", "b", "7">>, <<"A", "/", "b">>}

\* the 32-bit sum PRESET_VALID_MARKER + bytes, as <<upper half, lower half>>
RECURSIVE ByteSum(_)
ByteSum(data) == IF data = <<>> THEN 0 ELSE Head(data) + ByteSum(Tail(data))

CalculateChecksum(settings) ==
    LET lo == PRESET_VALID_MARKER_LO + ByteSum(settings)
    IN  <<(PRESET_VALID_MARKER_HI + (lo \div 65536)) % 65536, lo % 65536>>

GetPresetAddress(presetId) ==
    IF presetId < USER_PRESET_START_ID \/ presetId >= TOTAL_PRESET_COUNT
    THEN 0
    ELSE LET offset == (presetId - USER_PRESET_START_ID) * SizeofPreset
         IN  IF offset >= PRESET_STORAGE_MAX_SIZE THEN 0 ELSE PRESET_STORAGE_BASE_ADDR + offset

FlashAddrs == {GetPresetAddress(presetId) : presetId \in UserPresetIds}

\* a Preset_t of erased flash: every byte 0xFF
ErasedPreset ==
    [presetId |-> 255, name |-> <<"xFF">>, checksum |-> <<65535, 65535>>,
     timestamp |-> -1, settings |-> <<255, 255>>]

MetadataFields == {"presetId", "name", "checksum", "timestamp"}

MetadataOf(preset) == [k \in MetadataFields |-> preset[k]]

\* memset(&emptyPreset, 0xFF, ..) with presetId = PRESET_ID_INVALID
InvalidMetadata == [MetadataOf(ErasedPreset) EXCEPT !.presetId = PRESET_ID_INVALID]

\* an entry of the metadata cache marked unused
NoMetadata == [presetId |-> PRESET_ID_INVALID, name |-> <<>>, checksum |-> <<0, 0>>, timestamp |-> 0]

\* flash_storage.c is not under src/.  A write stores the fields it is given
\* and reports success, or fails having stored nothing, or fails having stored
\* the metadata only
FlashOutcomes == {"ok", "error", "torn"}

Flash_Write(f, address, data, outcome) ==
    LET stored == IF outcome = "ok"
                  THEN DOMAIN data
                  ELSE IF outcome = "torn" THEN DOMAIN data \cap MetadataFields ELSE {}
    IN  [f EXCEPT ![address] = [k \in DOMAIN @ |-> IF k \in stored THEN data[k] ELSE @[k]]]

\* the whole sector the address lies in goes back to 0xFF
Flash_EraseSector(f, address) ==
    LET sector(a) == (a - PRESET_STORAGE_BASE_ADDR) \div PRESET_STORAGE_SECTOR_SIZE
    IN  [a \in DOMAIN f |-> IF sector(a) = sector(address) THEN ErasedPreset ELSE f[a]]

\* presetId starts a sector
StartsSector(presetId) ==
    (presetId - USER_PRESET_START_ID) % (PRESET_STORAGE_SECTOR_SIZE \div SizeofPreset) = 0

IsPresetValid(preset) ==
    IF preset.presetId < USER_PRESET_START_ID \/ preset.presetId >= TOTAL_PRESET_COUNT
    THEN FALSE
    ELSE CalculateChecksum(preset.settings) = preset.checksum

\* the cache InitPresetMetadataCache builds from flash f
InitPresetMetadataCache(f) ==
    [i \in MetadataSlots |->
        LET presetId == USER_PRESET_START_ID + i
            address == GetPresetAddress(presetId)
        IN  IF address # 0 /\ f[address].presetId = presetId
            THEN MetadataOf(f[address])
            ELSE NoMetadata]

\* the manager's statics and the flash behind them, with the status returned
Returning(p, status) == [p EXCEPT !.status = status]

PresetManager_SavePreset(p, presetId, settings, outcome) ==
    IF presetId < USER_PRESET_START_ID \/ presetId >= TOTAL_PRESET_COUNT
    THEN Returning(p, PRESET_STATUS_INVALID)
    ELSE LET metadataIndex == presetId - USER_PRESET_START_ID
             preset == [presetId |-> presetId,
                        name |-> IF p.presetMetadata[metadataIndex].presetId = PRESET_ID_INVALID
                                 THEN DefaultName(presetId)
                                 ELSE p.presetMetadata[metadataIndex].name,
                        checksum |-> CalculateChecksum(settings),
                        timestamp |-> HAL_GetTick,
                        settings |-> settings]
             address == GetPresetAddress(presetId)
             erased == IF StartsSector(presetId) THEN Flash_EraseSector(p.flash, address) ELSE p.flash
             written == Flash_Write(erased, address, preset, outcome)
         IN  IF address = 0
             THEN Returning(p, PRESET_STATUS_ERROR)
             ELSE IF outcome # "ok"
             THEN Returning([p EXCEPT !.flash = written], PRESET_STATUS_ERROR)
             ELSE Returning([p EXCEPT !.flash = written,
                                      !.presetMetadata[metadataIndex] = MetadataOf(preset)],
                            PRESET_STATUS_OK)

\* a load that makes the preset current before it has read and validated it
LoadPreset_CurrentFirst(p, presetId, readOk) ==
    LET id == IF presetId = PRESET_ID_CURRENT THEN p.currentPresetId ELSE presetId
        address == GetPresetAddress(id)
        preset == p.flash[address]
    IN  IF id < USER_PRESET_START_ID
        THEN IF id >= NUM_FACTORY_PRESETS
             THEN Returning(p, 2)
             ELSE Returning([p EXCEPT !.settings = FactorySettings(id)], 0)
        ELSE IF id < TOTAL_PRESET_COUNT
        THEN IF address = 0
             THEN Returning(p, PRESET_STATUS_ERROR)
             ELSE IF ~readOk
             THEN Returning([p EXCEPT !.currentPresetId = id], PRESET_STATUS_ERROR)
             ELSE IF ~IsPresetValid(preset) \/ preset.presetId # id
             THEN Returning([p EXCEPT !.currentPresetId = id], PRESET_STATUS_INVALID)
             ELSE Returning([p EXCEPT !.settings = preset.settings, !.currentPresetId = id],
                            PRESET_STATUS_OK)
        ELSE Returning(p, PRESET_STATUS_INVALID)

\* p.settings is the caller's record
PresetManager_LoadPreset(p, presetId, readOk) ==
    LET id == IF presetId = PRESET_ID_CURRENT THEN p.currentPresetId ELSE presetId
        address == GetPresetAddress(id)
        preset == p.flash[address]
    IN  IF id < USER_PRESET_START_ID
        THEN \* FactoryPresets_GetPreset(id, settings)
             IF id >= NUM_FACTORY_PRESETS
             THEN Returning(p, 2)
             ELSE Returning([p EXCEPT !.settings = FactorySettings(id)], 0)
        ELSE IF id < TOTAL_PRESET_COUNT
        THEN IF address = 0
             THEN Returning(p, PRESET_STATUS_ERROR)
             ELSE IF ~readOk
             THEN Returning(p, PRESET_STATUS_ERROR)
             ELSE IF ~IsPresetValid(preset) \/ preset.presetId # id
             THEN Returning(p, PRESET_STATUS_INVALID)
             ELSE Returning([p EXCEPT !.settings = preset.settings, !.currentPresetId = id],
                            PRESET_STATUS_OK)
        ELSE Returning(p, PRESET_STATUS_INVALID)

\* a delete that goes to the address computation without the range test
DeletePreset_Unchecked(p, presetId, outcome) ==
    IF GetPresetAddress(presetId) = 0
    THEN Returning(p, PRESET_STATUS_ERROR)
    ELSE Returning(p, PRESET_STATUS_OK)

PresetManager_DeletePreset(p, presetId, outcome) ==
    IF presetId < USER_PRESET_START_ID \/ presetId >= TOTAL_PRESET_COUNT
    THEN Returning(p, PRESET_STATUS_INVALID)
    ELSE LET address == GetPresetAddress(presetId)
             metadataIndex == presetId - USER_PRESET_START_ID
             written == Flash_Write(p.flash, address, InvalidMetadata, outcome)
         IN  IF address = 0
             THEN Returning(p, PRESET_STATUS_ERROR)
             ELSE IF outcome # "ok"
             THEN Returning([p EXCEPT !.flash = written], PRESET_STATUS_ERROR)
             ELSE Returning([p EXCEPT !.flash = written,
                                      !.presetMetadata[metadataIndex] = NoMetadata,
                                      !.currentPresetId = IF @ = presetId THEN 0 ELSE @],
                            PRESET_STATUS_OK)

PresetManager_RenamePreset(p, presetId, newName, readOk, outcome) ==
    IF presetId < USER_PRESET_START_ID \/ presetId >= TOTAL_PRESET_COUNT
    THEN Returning(p, PRESET_STATUS_INVALID)
    ELSE LET metadataIndex == presetId - USER_PRESET_START_ID
             address == GetPresetAddress(presetId)
             sanitizedName == SanitizePresetName(Truncate(newName))
             preset == [p.flash[address] EXCEPT !.name = sanitizedName]
             erased == IF StartsSector(presetId) THEN Flash_EraseSector(p.flash, address) ELSE p.flash
             written == Flash_Write(erased, address, preset, outcome)
         IN  IF p.presetMetadata[metadataIndex].presetId = PRESET_ID_INVALID
             THEN Returning(p, PRESET_STATUS_EMPTY)
             ELSE IF address = 0 \/ ~readOk
             THEN Returning(p, PRESET_STATUS_ERROR)
             ELSE IF outcome # "ok"
             THEN Returning([p EXCEPT !.flash = written], PRESET_STATUS_ERROR)
             ELSE Returning([p EXCEPT !.flash = written,
                                      !.presetMetadata[metadataIndex].name = sanitizedName],
                            PRESET_STATUS_OK)

PresetManager_SetCurrentPreset(p, presetId) ==
    IF presetId < TOTAL_PRESET_COUNT THEN [p EXCEPT !.currentPresetId = presetId] ELSE p

\* what the flash can hold at power-on: nothing; or, left by an earlier run,
\* preset 6 stored whole, preset 14 stored with the checksum of other
\* settings, and the slot of preset 7 holding a whole preset numbered 6
StoredPreset(presetId, settings) ==
    [presetId |-> presetId, name |-> DefaultName(presetId),
     checksum |-> CalculateChecksum(settings), timestamp |-> 0, settings |-> settings]

ErasedFlash == [a \in FlashAddrs |-> ErasedPreset]

UsedFlash ==
    [ErasedFlash EXCEPT ![GetPresetAddress(6)] = StoredPreset(6, <<1, 2>>),
                        ![GetPresetAddress(7)] = StoredPreset(6, <<2, 1>>),
                        ![GetPresetAddress(14)] =
                            [StoredPreset(14, <<0, 7>>) EXCEPT !.settings = <<1, 7>>]]

FlashImages == {ErasedFlash, UsedFlash}

PresetStatics(f) ==
    [flash |-> f,
     presetMetadata |-> InitPresetMetadataCache(f),
     currentPresetId |-> 0,
     settings |-> <<0, 0>>,
     status |-> PRESET_STATUS_OK]

PresetInit ==
    /\ presets = PresetStatics(ErasedFlash)
    /\ presetOp = [op |-> "PresetManager_Init", presetId |-> 0]
    /\ presetCalls = 0

\* the preset ids handed in: the last factory preset, the ends and the inside
\* of the user range, the first id past it, and PRESET_ID_CURRENT
PresetIdValues == {4, 5, 6, 7, 14, 15, PRESET_ID_CURRENT}

PresetCall(op, presetId, after) ==
    /\ presetCalls < MaxPresetCalls
    /\ presets' = after
    /\ presetOp' = [op |-> op, presetId |-> presetId]
    /\ presetCalls' = presetCalls + 1
    /\ UNCHANGED NotPreset

\* power-on over what the flash holds
PresetManager_Init(f) ==
    /\ presetCalls = 0
    /\ presets' = PresetStatics(f)
    /\ presetOp' = [op |-> "PresetManager_Init", presetId |-> 0]
    /\ UNCHANGED presetCalls
    /\ UNCHANGED NotPreset

\* the caller's record holds settings and is saved
SavePreset(presetId, settings, outcome) ==
    PresetCall("PresetManager_SavePreset", presetId,
               PresetManager_SavePreset([presets EXCEPT !.settings = settings],
                                        presetId, settings, outcome))

LoadPreset(presetId, readOk) ==
    PresetCall("PresetManager_LoadPreset", presetId,
               PresetManager_LoadPreset(presets, presetId, readOk))

DeletePreset(presetId, outcome) ==
    PresetCall("PresetManager_DeletePreset", presetId,
               PresetManager_DeletePreset(presets, presetId, outcome))

RenamePreset(presetId, newName, readOk, outcome) ==
    PresetCall("PresetManager_RenamePreset", presetId,
               PresetManager_RenamePreset(presets, presetId, newName, readOk, outcome))

SetCurrentPreset(presetId) ==
    PresetCall("PresetManager_SetCurrentPreset", presetId,
               PresetManager_SetCurrentPreset(presets, presetId))

PresetNext ==
    \/ \E f \in FlashImages : PresetManager_Init(f)
    \/ \E presetId \in PresetIdValues, settings \in SettingsValues, outcome \in FlashOutcomes :
           SavePreset(presetId, settings, outcome)
    \/ \E presetId \in PresetIdValues, readOk \in BOOLEAN : LoadPreset(presetId, readOk)
    \/ \E presetId \in PresetIdValues, outcome \in FlashOutcomes : DeletePreset(presetId, outcome)
    \/ \E presetId \in PresetIdValues, newName \in NewNames, readOk \in BOOLEAN :
           \E outcome \in IF readOk THEN FlashOutcomes ELSE {"error"} :
               RenamePreset(presetId, newName, readOk, outcome)
    \/ \E presetId \in PresetIdValues : SetCurrentPreset(presetId)

\* C34: save, delete and rename of a preset id outside 5..14 return
\* PRESET_STATUS_INVALID and leave the flash, the metadata cache and the
\* current preset id as they were.
C34_InvalidIdRejected ==
    [][(presetOp'.op \in {"PresetManager_SavePreset", "PresetManager_DeletePreset",
                          "PresetManager_RenamePreset"}
            /\ presetOp'.presetId \notin 5 .. 14) =>
          /\ presets'.status = PRESET_STATUS_INVALID
          /\ presets'.flash = presets.flash
          /\ presets'.presetMetadata = presets.presetMetadata
          /\ presets'.currentPresetId = presets.currentPresetId
      ]_vars

\* the first id past the user range refused by a delete, with a preset stored
\* in flash and cached and a user preset current
C34_Witness ==
    /\ presetOp = [op |-> "PresetManager_DeletePreset", presetId |-> 15]
    /\ presets.status = PRESET_STATUS_INVALID
    /\ presets.currentPresetId = 14
    /\ presets.presetMetadata[1].presetId = 6
    /\ presets.flash # ErasedFlash

\* the id a load works on: PRESET_ID_CURRENT stands for the current preset
LoadedId(p, presetId) == IF presetId = PRESET_ID_CURRENT THEN p.currentPresetId ELSE presetId

\* C35: a load that does not return PRESET_STATUS_OK leaves the caller's
\* settings record and the current preset id as they were, and a load changes
\* the current preset id only to the user preset it has loaded with
\* PRESET_STATUS_OK.
C35_FailedLoadLeavesState ==
    [][presetOp'.op = "PresetManager_LoadPreset" =>
          /\ presets'.status # PRESET_STATUS_OK =>
                 /\ presets'.settings = presets.settings
                 /\ presets'.currentPresetId = presets.currentPresetId
          /\ presets'.currentPresetId # presets.currentPresetId =>
                 /\ presets'.status = PRESET_STATUS_OK
                 /\ LoadedId(presets, presetOp'.presetId) \in UserPresetIds
                 /\ presets'.currentPresetId = LoadedId(presets, presetOp'.presetId)
      ]_vars

\* a load of user preset 14 refused for its checksum, the stored id being
\* right, while another user preset is current and the caller holds settings
\* of its own
C35_Witness ==
    /\ presetOp = [op |-> "PresetManager_LoadPreset", presetId |-> 14]
    /\ presets.status = PRESET_STATUS_INVALID
    /\ presets.flash[GetPresetAddress(14)].presetId = 14
    /\ ~IsPresetValid(presets.flash[GetPresetAddress(14)])
    /\ presets.currentPresetId = 6
    /\ presets.settings = <<1, 2>>

----------------------------------------------------------------------------
(* Specifications                                                          *)

Init == XoverInit /\ DelayInit /\ PipeInit /\ LoopInit /\ DynamicsInit /\ ButtonStatics /\ RotaryStatics /\ UI_Init /\ MenuInit /\ PresetInit

Next == XoverNext \/ DelayNext \/ PipeNext \/ LoopNext \/ DynamicsNext \/ ButtonNext \/ RotaryNext \/ UINext \/ MenuNext \/ PresetNext

\* the whole core
Spec == Init /\ [][Next]_vars

\* the crossover driven by setter calls and block processing from the main loop
SpecXover == Init /\ [][XoverNext]_vars

\* the delay module driven by setter calls, resets and block processing
SpecDelay == Init /\ [][DelayNext]_vars

\* the impulse measurement on the delay line
SpecImpulse == Init /\ [][ImpulseNext]_vars

\* the button handler with every call running to completion
SpecButton == Init /\ [][ButtonNext]_vars

\* the button handler with the sampling interrupt between the instructions of
\* the main loop's calls
SpecButtonRace == Init /\ [][ButtonRaceNext]_vars

\* the rotary encoder with the sampling interrupt between the instructions of
\* RotaryEncoder_GetEvent
SpecRotaryRace == Init /\ [][RotaryRaceNext]_vars

\* both input queues sampled together by the TIM3 interrupt
SpecQueues == Init /\ [][QueuesNext]_vars

\* the main loop's user-interface pass over the sampled button
SpecUI == Init /\ [][UINext]_vars

\* the confirmation dialog under button, rotary and timer events
SpecDialog == Init /\ [][DialogNext]_vars

\* the menu driven by button and encoder events
SpecMenu == Init /\ [][MenuNext]_vars

\* the preset manager over flash that can fail
SpecPreset == Init /\ [][PresetNext]_vars

\* compressor and limiter driven by their callers
SpecDynamics == Init /\ [][DynamicsNext]_vars

\* the main loop with the interrupt handlers running at any point of it
SpecLoop == Init /\ [][LoopNext]_vars

\* the setters of crossover and delay line in any order
SpecSetters == Init /\ [][SettersNext]_vars

\* the block pipeline over runs long enough for two blocks under changed settings
SpecMeter == Init /\ [][MeterNext]_vars

\* the block pipeline driven by settings changes, bypass switching and blocks
SpecPipe == Init /\ [][PipeNext]_vars

====
